---- MODULE Spec2Model ----
(***************************************************************************)
(* Model of mib-viewer: the two SMIv2 parsers of the repository            *)
(* (SmiV2Parser in parser.py, parse_mib_text in mib_browser.py), their     *)
(* text normalisers and header / IMPORTS scanners, and the module          *)
(* registries of mib_browser.py.                                           *)
(*                                                                         *)
(* Conventions.  A text is a sequence of one-character strings.  A dotted  *)
(* oid string "1.3.6" is the sequence of its segments <<"1","3","6">>; a   *)
(* segment is the text between two dots, numeric or symbolic.  A           *)
(* declaration is one match of the scanner's regular expression: its name, *)
(* its keyword and the tokens of its braced arc expression.                *)
(***************************************************************************)
EXTENDS Integers, Sequences, FiniteSets, TLC

VARIABLES
  impl,             \* which parser runs: "parser" (parser.py) or "mib_browser"
  decls,            \* the declarations of the module text, in source order
  pc,               \* position of the running parse
  nodes,            \* self.nodes / nodes: name -> node record
  order,            \* insertion order of the keys of nodes
  oid_map,          \* parser.py oid_map: name -> oid
  sym2oid,          \* mib_browser.py sym2oid: name -> oid
  idx,              \* position of the running for-loop
  passes,           \* number of started passes of the while loop of pass 2
  resolved_in_pass, \* parser.py resolved_in_pass
  doc,              \* result of _pass3_build_tree: names of the root nodes
  first,            \* oids of the first parse of this declaration set
  text,             \* a raw module text handed to the text functions
  truth,            \* how text was put together: what it contains
  tpc,              \* which text functions have been applied to text
  out,              \* the results of the text functions applied so far
  started,          \* mib_browser.py: whether __main__ has called parse_sources
  auto,             \* the *.mib files under BASE_DIR, in the order of rglob
  uploads,          \* the files of UPLOAD_DIR: file name -> content
  COMPILED,         \* mib_browser.py COMPILED: module name -> doc
  MOD_TO_PATH,      \* mib_browser.py MOD_TO_PATH: module name -> path
  MODULE_EXPORTS,   \* mib_browser.py MODULE_EXPORTS: module name -> names
  IMPORTED_BY,      \* mib_browser.py IMPORTED_BY: source -> importer -> symbols
  r_impl,           \* whose registry this is: "mib_browser" or "app" (app.py)
  loaded,           \* the files stored in COMPILED since it was last empty, in order
  s_impl,           \* which search_all runs: "search" (search.py) or "mib_browser"
  s_mods,           \* the keys of the registry that is searched, in dict order
  term,             \* the term handed to search_all
  s_pc,             \* position of the running search
  s_mi,             \* position of the loop over the modules
  s_ni,             \* position of the loop over the nodes
  hits,             \* hits: <<module, position in its flat list>> of each hit
  late,             \* number of nodes tested when hits was full already
  f_impl,           \* which program makes the flat list: "search" or "mib_browser"
  f_nodes,          \* the nodes of a module, in the order of the dict
  f_pc,             \* which flat lists have been made
  flat,             \* the flat lists made of f_nodes
  call,             \* the last call of add_mib_content, if it was the last request
  thr,              \* the position of each request thread in its rebuild
  seen              \* what the last module view or search read of the registry

parseVars == <<impl, decls, pc, nodes, order, oid_map, sym2oid, idx, passes,
               resolved_in_pass, doc, first>>

textVars == <<text, truth, tpc, out>>

regVars == <<started, auto, uploads, COMPILED, MOD_TO_PATH, MODULE_EXPORTS,
             IMPORTED_BY, r_impl, loaded, call>>

\* the variables a parse of declarations leaves alone
searchVars == <<s_impl, s_mods, term, s_pc, s_mi, s_ni, hits, late>>

flatVars == <<f_impl, f_nodes, f_pc, flat>>

concVars == <<thr, seen>>

nonParseVars == <<textVars, regVars, searchVars, flatVars, concVars>>

\* the variables the text functions leave alone
nonTextVars == <<parseVars, regVars, searchVars, flatVars, concVars>>

\* the variables the registry operations leave alone
nonRegVars == <<parseVars, textVars, searchVars, flatVars, concVars>>

\* the variables a search leaves alone
nonSearchVars == <<parseVars, textVars, regVars, flatVars, concVars>>

\* the variables the making of a flat list leaves alone
nonFlatVars == <<parseVars, textVars, regVars, searchVars, concVars>>

\* the variables concurrent requests leave alone
nonConcVars == <<parseVars, textVars, searchVars, flatVars>>

vars == <<parseVars, textVars, regVars, searchVars, flatVars, concVars>>

----------------------------------------------------------------------------
(* Bounds *)

MaxDecls == 3

\* the length of the texts that are tried exhaustively
MaxText == 4

----------------------------------------------------------------------------
(* Generic helpers *)

Range(s) == { s[i] : i \in DOMAIN s }

Last(s) == s[Len(s)]

IsInjective(s) == \A i, j \in DOMAIN s : s[i] = s[j] => i = j

\* str.isdigit() on a segment or token text: the decimal numerals of the model
NumVal ==
  [s \in {"0","1","2","3","4","5","6","7","8","9"} |->
     CASE s = "0" -> 0 [] s = "1" -> 1 [] s = "2" -> 2 [] s = "3" -> 3
       [] s = "4" -> 4 [] s = "5" -> 5 [] s = "6" -> 6 [] s = "7" -> 7
       [] s = "8" -> 8 [] s = "9" -> 9]

isdigit(s) == s \in DOMAIN NumVal

\* dict.get(key) with None modelled as the empty oid
DictGet(d, k) == IF k \in DOMAIN d THEN d[k] ELSE <<>>

\* d[k] = v
DictSet(d, k, v) == [x \in DOMAIN d \cup {k} |-> IF x = k THEN v ELSE d[x]]

----------------------------------------------------------------------------
(* Arc tokens.  k is the lexical class of the token text:                  *)
(*   "id"   bare identifier s                                              *)
(*   "num"  bare integer d[1]                                              *)
(*   "pair" s(d[1])                                                        *)
(*   "dot"  dotted numeric d[1].d[2]...                                    *)

Id(s)      == [k |-> "id",   s |-> s, d |-> <<>>]
Num(n)     == [k |-> "num",  s |-> n, d |-> <<n>>]
Pair(s, n) == [k |-> "pair", s |-> s, d |-> <<n>>]
Dot(d)     == [k |-> "dot",  s |-> "", d |-> d]

Decl(name, klass, arc) == [name |-> name, klass |-> klass, arc |-> arc]

\* The declarations a module text is drawn from
DeclUniverse ==
  { Decl("internet", "OBJECT IDENTIFIER", <<Id("iso"), Num("3"), Num("6"), Num("1")>>),
    Decl("mib-2",    "OBJECT IDENTIFIER", <<Id("internet"), Num("2"), Num("1")>>),
    Decl("sysDescr", "OBJECT-TYPE",       <<Id("mib-2"), Num("1"), Num("1")>>),
    Decl("system",   "OBJECT IDENTIFIER", <<Id("mib-2"), Num("1")>>),
    Decl("org",      "OBJECT IDENTIFIER", <<Id("iso"), Num("3")>>),
    Decl("dod",      "OBJECT IDENTIFIER", <<Id("org"), Num("6")>>),
    Decl("ifIndex",  "OBJECT-TYPE",       <<Id("dod"), Num("1")>>),
    Decl("ifIndex",  "OBJECT-TYPE",       <<Id("org"), Num("7")>>),
    Decl("dod",      "OBJECT-TYPE",       <<Id("iso"), Num("9")>>),
    Decl("iso",      "OBJECT IDENTIFIER", <<Id("org"), Num("3")>>),
    Decl("cycA",     "OBJECT IDENTIFIER", <<Id("cycB"), Num("1")>>),
    Decl("cycB",     "OBJECT IDENTIFIER", <<Id("cycA"), Num("2")>>),
    Decl("top",      "OBJECT IDENTIFIER", <<Num("2")>>),
    Decl("ident",    "MODULE-IDENTITY",   <<Id("iso"), Pair("org", "3")>>) }

AllNames == { d.name : d \in DeclUniverse }

\* Module texts: up to MaxDecls different declarations in some order
Inputs ==
  UNION { { s \in [1..n -> DeclUniverse] : IsInjective(s) } : n \in 0..MaxDecls }

DistinctNames(ds) == \A i, j \in DOMAIN ds : ds[i].name = ds[j].name => i = j

EmptyDict == <<>>

----------------------------------------------------------------------------
(* parser.py: SmiV2Parser *)

\* the keyword alternatives of the pattern of _pass1_discover_nodes
ParserKlasses ==
  { "OBJECT-TYPE", "OBJECT IDENTIFIER", "MODULE-IDENTITY", "OBJECT-GROUP",
    "NOTIFICATION-TYPE", "TRAP-TYPE", "TEXTUAL-CONVENTION" }

\* klass.replace(' ', '-')
KlassDash(klass) == IF klass = "OBJECT IDENTIFIER" THEN "OBJECT-IDENTIFIER" ELSE klass

ParserNode(d) ==
  [ klass |-> KlassDash(d.klass), oid_def |-> d.arc, has_oid |-> FALSE,
    oid |-> <<>>, children |-> <<>> ]

\* for m in pattern.finditer(self.raw): self.nodes[name] = {...}
\* returns <<nodes, order>> after the declarations ds[i..]
RECURSIVE Pass1From(_, _, _, _)
Pass1From(ds, i, ns, ord) ==
  IF i > Len(ds) THEN <<ns, ord>>
  ELSE LET d == ds[i] IN
       IF d.klass \notin ParserKlasses \/ d.name = "MACRO"
       THEN Pass1From(ds, i + 1, ns, ord)
       ELSE Pass1From(ds, i + 1, DictSet(ns, d.name, ParserNode(d)),
                      IF d.name \in DOMAIN ns THEN ord ELSE Append(ord, d.name))

\* _parse_oid_def: <<found, parent token, sub_id token>>
NoTok == Id("")

_parse_oid_def(oid_def) ==
  IF Len(oid_def) = 2 THEN <<TRUE, oid_def[1], oid_def[2]>>
  ELSE IF Len(oid_def) = 1 /\ oid_def[1].k = "num" THEN <<TRUE, Id("iso"), oid_def[1]>>
  ELSE <<FALSE, NoTok, NoTok>>

\* the text of a token as a dictionary key: only identifiers and integers can
\* be the name of a node (names match [a-zA-Z0-9-]+)
IsKey(t) == t.k \in {"id", "num"}

\* the oid of the parent, as if only the seeded root were looked up
ParentOidSeedOnly(map, ns, parent) ==
  IF IsKey(parent) /\ parent.s = "iso" THEN DictGet(map, "iso") ELSE <<>>

\* lines 79-83: the oid of the parent, <<>> when there is none
ParentOid(map, ns, parent) ==
  IF ~IsKey(parent) THEN <<>>
  ELSE IF DictGet(map, parent.s) # <<>> THEN map[parent.s]
  ELSE IF parent.s \in DOMAIN ns /\ ns[parent.s].has_oid THEN ns[parent.s].oid
  ELSE <<>>

\* Resolves without the test of line 74 (if 'oid' in node: continue)
ResolvesAgain(map, ns, name) ==
  LET p == _parse_oid_def(ns[name].oid_def) IN
    /\ p[1]
    /\ ParentOid(map, ns, p[2]) # <<>>
    /\ p[3].k = "num"

\* whether one iteration of the for loop (lines 74-89) resolves node name
Resolves(map, ns, name) ==
  LET p == _parse_oid_def(ns[name].oid_def) IN
    /\ ~ns[name].has_oid
    /\ p[1]
    /\ ParentOid(map, ns, p[2]) # <<>>
    /\ p[3].k = "num"

ResolvedOid(map, ns, name) ==
  LET p == _parse_oid_def(ns[name].oid_def) IN
    Append(ParentOid(map, ns, p[2]), p[3].d[1])

\* Python's list comparison of [int(i) for i in x.split('.')]
RECURSIVE IntListLess(_, _)
IntListLess(a, b) ==
  IF a = <<>> THEN b # <<>>
  ELSE IF b = <<>> THEN FALSE
  ELSE IF NumVal[Head(a)] # NumVal[Head(b)] THEN NumVal[Head(a)] < NumVal[Head(b)]
  ELSE IntListLess(Tail(a), Tail(b))

\* sorted(nodes_by_oid.keys(), key=...)
RECURSIVE SortedOids(_)
SortedOids(S) ==
  IF S = {} THEN <<>>
  ELSE LET m == CHOOSE x \in S : \A y \in S \ {x} : IntListLess(x, y)
       IN <<m>> \o SortedOids(S \ {m})

\* nodes_by_oid = {node['oid']: node for node in self.nodes.values() if 'oid' in node}
\* a later node of the iteration replaces an earlier one with the same oid
NodesByOid(ns, ord) ==
  LET keys == { ns[n].oid : n \in { x \in DOMAIN ns : ns[x].has_oid } }
  IN [ o \in keys |->
         ord[CHOOSE i \in DOMAIN ord :
               /\ ns[ord[i]].has_oid /\ ns[ord[i]].oid = o
               /\ \A j \in DOMAIN ord :
                    (ns[ord[j]].has_oid /\ ns[ord[j]].oid = o) => j <= i] ]

\* the loop of _pass3_build_tree over sorted_oids[i..]: <<nodes, root_nodes>>
RECURSIVE Pass3From(_, _, _, _, _)
Pass3From(sorted, i, by, ns, roots) ==
  IF i > Len(sorted) THEN <<ns, roots>>
  ELSE LET oid    == sorted[i]
           name   == by[oid]
           parent == SubSeq(oid, 1, Len(oid) - 1)
       IN IF Len(oid) > 1 /\ parent \in DOMAIN by
          THEN Pass3From(sorted, i + 1, by,
                 [ns EXCEPT ![by[parent]].children = Append(@, name)], roots)
          ELSE Pass3From(sorted, i + 1, by, ns, Append(roots, name))

_pass3_build_tree(ns, ord) ==
  LET by == NodesByOid(ns, ord)
  IN Pass3From(SortedOids(DOMAIN by), 1, by, ns, <<>>)

----------------------------------------------------------------------------
(* The parse of one module text by SmiV2Parser.parse, one step per loop     *)
(* iteration of _pass2_resolve_oids.                                        *)

\* a bound on the number of passes that the model follows; the loop of the
\* code has no such bound
PassCap == MaxDecls + 3

\* parse(), lines 15-21: the header is found and pass 1 fills self.nodes
Pass1DiscoverNodes ==
  /\ impl = "parser" /\ pc = "start"
  /\ LET r == Pass1From(decls, 1, EmptyDict, <<>>) IN
       /\ nodes' = r[1]
       /\ order' = r[2]
  /\ oid_map' = DictSet(EmptyDict, "iso", <<"1">>)
  /\ resolved_in_pass' = TRUE
  /\ pc' = "while"
  /\ UNCHANGED <<impl, decls, sym2oid, idx, passes, doc, first>>
  /\ UNCHANGED nonParseVars

\* while resolved_in_pass: resolved_in_pass = False
Pass2While ==
  /\ impl = "parser" /\ pc = "while"
  /\ IF resolved_in_pass
     THEN /\ passes < PassCap
          /\ resolved_in_pass' = FALSE
          /\ passes' = passes + 1
          /\ idx' = 1
          /\ pc' = "for"
     ELSE /\ pc' = "pass3"
          /\ UNCHANGED <<resolved_in_pass, passes, idx>>
  /\ UNCHANGED <<impl, decls, nodes, order, oid_map, sym2oid, doc, first>>
  /\ UNCHANGED nonParseVars

\* one iteration of: for name, node in self.nodes.items()
Pass2Step ==
  /\ impl = "parser" /\ pc = "for" /\ idx <= Len(order)
  /\ LET name == order[idx] IN
       IF Resolves(oid_map, nodes, name)
       THEN LET oid == ResolvedOid(oid_map, nodes, name) IN
              /\ nodes' = [nodes EXCEPT ![name].has_oid = TRUE, ![name].oid = oid]
              /\ oid_map' = DictSet(oid_map, name, oid)
              /\ resolved_in_pass' = TRUE
       ELSE UNCHANGED <<nodes, oid_map, resolved_in_pass>>
  /\ idx' = idx + 1
  /\ UNCHANGED <<impl, decls, pc, order, sym2oid, passes, doc, first>>
  /\ UNCHANGED nonParseVars

\* the for loop is exhausted: back to the test of the while loop
Pass2EndFor ==
  /\ impl = "parser" /\ pc = "for" /\ idx > Len(order)
  /\ pc' = "while"
  /\ UNCHANGED <<impl, decls, nodes, order, oid_map, sym2oid, idx, passes,
                 resolved_in_pass, doc, first>>
  /\ UNCHANGED nonParseVars

\* doc = self._pass3_build_tree(); return
Pass3BuildTree ==
  /\ impl = "parser" /\ pc = "pass3"
  /\ LET r == _pass3_build_tree(nodes, order) IN
       /\ nodes' = r[1]
       /\ doc' = r[2]
  /\ pc' = "done"
  /\ UNCHANGED <<impl, decls, order, oid_map, sym2oid, idx, passes,
                 resolved_in_pass, first>>
  /\ UNCHANGED nonParseVars

----------------------------------------------------------------------------
(* mib_browser.py: parse_mib_text *)

BASE_OIDS ==
  [ n \in { "ccitt", "iso", "joint-iso-ccitt", "org", "dod", "internet",
            "directory", "mgmt", "mib-2", "experimental", "private",
            "enterprises", "security", "snmpV2", "snmpDomains", "snmpProxys",
            "snmpModules" } |->
      CASE n = "ccitt"           -> <<"0">>
        [] n = "iso"             -> <<"1">>
        [] n = "joint-iso-ccitt" -> <<"2">>
        [] n = "org"             -> <<"1", "3">>
        [] n = "dod"             -> <<"1", "3", "6">>
        [] n = "internet"        -> <<"1", "3", "6", "1">>
        [] n = "directory"       -> <<"1", "3", "6", "1", "1">>
        [] n = "mgmt"            -> <<"1", "3", "6", "1", "2">>
        [] n = "mib-2"           -> <<"1", "3", "6", "1", "2", "1">>
        [] n = "experimental"    -> <<"1", "3", "6", "1", "3">>
        [] n = "private"         -> <<"1", "3", "6", "1", "4">>
        [] n = "enterprises"     -> <<"1", "3", "6", "1", "4", "1">>
        [] n = "security"        -> <<"1", "3", "6", "1", "5">>
        [] n = "snmpV2"          -> <<"1", "3", "6", "1", "6">>
        [] n = "snmpDomains"     -> <<"1", "3", "6", "1", "6", "1">>
        [] n = "snmpProxys"      -> <<"1", "3", "6", "1", "6", "2">>
        [] n = "snmpModules"     -> <<"1", "3", "6", "1", "6", "3">> ]

\* str(int(text)) of a numeral
IntStr(n) == CHOOSE s \in DOMAIN NumVal : NumVal[s] = n

\* _parse_arc_token: <<name, num>>; num is -1 for None.  The name of a dotted
\* token is the token itself, kept as its segments in d.
_parse_arc_token(tok) ==
  IF tok.k = "pair" THEN <<tok.s, NumVal[tok.d[1]]>> ELSE <<tok.s, -1>>

\* lines 1092-1100: the path the first token stands for
ParentPath(tok, s2o) ==
  LET parent_tok == _parse_arc_token(tok)[1] IN
  IF tok.k = "dot" THEN tok.d
  ELSE IF isdigit(parent_tok) THEN <<parent_tok>>
  ELSE LET base == IF DictGet(s2o, parent_tok) # <<>> THEN s2o[parent_tok]
                   ELSE DictGet(BASE_OIDS, parent_tok)
       IN IF base # <<>> THEN base ELSE <<parent_tok>>

\* lines 1103-1111: the segments one later token appends
ChildSegs(tok) ==
  LET r == _parse_arc_token(tok) IN
  IF tok.k = "dot" THEN tok.d
  ELSE IF isdigit(r[1]) THEN <<r[1]>>
  ELSE IF r[2] # -1 THEN <<IntStr(r[2])>>
  ELSE <<r[1]>>

\* ChildPath reading a single arc after the parent, as _parse_oid_def does
ChildPathOneArc(tokens, i) ==
  IF i > Len(tokens) THEN <<>> ELSE ChildSegs(tokens[i])

RECURSIVE ChildPath(_, _)
ChildPath(tokens, i) ==
  IF i > Len(tokens) THEN <<>> ELSE ChildSegs(tokens[i]) \o ChildPath(tokens, i + 1)

\* ".".join([str(x) for x in path if str(x) != ""])
DropEmpty(path) == SelectSeq(path, LAMBDA x : x # "")

_resolve_braced_oid(body, s2o) ==
  IF body = <<>> THEN <<>>
  ELSE DropEmpty(ParentPath(body[1], s2o) \o ChildPath(body, 2))

\* re.fullmatch(r"\d+(?:\.\d+)+", oid)
IsDottedNumeric(oid) == Len(oid) >= 2 /\ \A i \in DOMAIN oid : isdigit(oid[i])

\* the declarations each finditer loop of parse_mib_text visits, in text order
OfKlass(ds, K) == SelectSeq(ds, LAMBDA d : d.klass \in K)

OidAssigns(ds) == OfKlass(ds, {"OBJECT IDENTIFIER"})

\* lines 1211-1225: OBJECT-IDENTITY, then OBJECT-TYPE, then NOTIFICATION-TYPE
AddNodes1(ds) ==
  OfKlass(ds, {"OBJECT-IDENTITY"}) \o OfKlass(ds, {"OBJECT-TYPE"})
    \o OfKlass(ds, {"NOTIFICATION-TYPE"})

\* lines 1244-1330; a TEXTUAL-CONVENTION or SEQUENCE has parent_body ""
AddNodes2(ds) ==
  OfKlass(ds, {"TEXTUAL-CONVENTION"}) \o OfKlass(ds, {"SEQUENCE"})
    \o OfKlass(ds, {"OBJECT-GROUP"}) \o OfKlass(ds, {"MODULE-COMPLIANCE"})
    \o OfKlass(ds, {"AGENT-CAPABILITIES"})

ParentBody(d) == IF d.klass \in {"TEXTUAL-CONVENTION", "SEQUENCE"} THEN <<>> ELSE d.arc

BrowserNode(klass, body, oid) ==
  [ klass |-> klass, oid_def |-> body, has_oid |-> TRUE, oid |-> oid,
    children |-> <<>> ]

\* lines 1208-1209 of add_node: which oids enter sym2oid
Registers(oid) == oid # <<>> /\ IsDottedNumeric(oid)

\* lines 1187-1188 of the OBJECT IDENTIFIER loop: if oid: sym2oid[name] = oid
AssignRegisters(oid) == oid # <<>>

\* for m in RE_OID_ASSIGN.finditer(src): one iteration
OidAssignStep ==
  /\ impl = "mib_browser" /\ pc = "assign" /\ idx <= Len(OidAssigns(decls))
  /\ LET d   == OidAssigns(decls)[idx]
         oid == _resolve_braced_oid(d.arc, sym2oid)
     IN sym2oid' = IF AssignRegisters(oid) THEN DictSet(sym2oid, d.name, oid)
                   ELSE sym2oid
  /\ idx' = idx + 1
  /\ UNCHANGED <<impl, decls, pc, nodes, order, oid_map, passes,
                 resolved_in_pass, doc, first>>
  /\ UNCHANGED nonParseVars

\* add_node, called from one iteration of the loops of lines 1211-1225 (pc
\* "add1") or of lines 1244-1330 (pc "add2")
AddNodeStep ==
  /\ impl = "mib_browser" /\ pc \in {"add1", "add2"}
  /\ LET sched == IF pc = "add1" THEN AddNodes1(decls) ELSE AddNodes2(decls) IN
       /\ idx <= Len(sched)
       /\ LET d   == sched[idx]
              oid == _resolve_braced_oid(ParentBody(d), sym2oid)
          IN /\ nodes' = DictSet(nodes, d.name, BrowserNode(d.klass, ParentBody(d), oid))
             /\ sym2oid' = IF Registers(oid) THEN DictSet(sym2oid, d.name, oid)
                           ELSE sym2oid
  /\ idx' = idx + 1
  /\ UNCHANGED <<impl, decls, pc, order, oid_map, passes, resolved_in_pass,
                 doc, first>>
  /\ UNCHANGED nonParseVars

\* lines 1227-1241: nodes.setdefault(name, ...) for every name of sym2oid
SetDefaultNodes(ns, s2o) ==
  [ n \in DOMAIN ns \cup DOMAIN s2o |->
      IF n \in DOMAIN ns THEN ns[n]
      ELSE BrowserNode("OBJECT IDENTIFIER", <<>>, s2o[n]) ]

\* a loop is exhausted: the next stage of parse_mib_text begins
BrowserAdvance ==
  /\ impl = "mib_browser"
  /\ \/ /\ pc = "start"
        /\ pc' = "assign" /\ nodes' = nodes
     \/ /\ pc = "assign" /\ idx > Len(OidAssigns(decls))
        /\ pc' = "add1" /\ nodes' = nodes
     \/ /\ pc = "add1" /\ idx > Len(AddNodes1(decls))
        /\ pc' = "add2" /\ nodes' = SetDefaultNodes(nodes, sym2oid)
     \/ /\ pc = "add2" /\ idx > Len(AddNodes2(decls))
        /\ pc' = "done" /\ nodes' = nodes
  /\ idx' = 1
  /\ UNCHANGED <<impl, decls, order, oid_map, sym2oid, passes,
                 resolved_in_pass, doc, first>>
  /\ UNCHANGED nonParseVars

BrowserNext ==
  \/ OidAssignStep
  \/ AddNodeStep
  \/ BrowserAdvance

ParserNext ==
  \/ Pass1DiscoverNodes
  \/ Pass2While
  \/ Pass2Step
  \/ Pass2EndFor
  \/ Pass3BuildTree

\* no text function is running
----------------------------------------------------------------------------
(* mib_browser.py: the module registry.  The content of a file is the doc   *)
(* parse_mib_text makes of it: its moduleName, the keys of its nodes and     *)
(* its imports.  A path is the sequence of its components.                   *)

Doc(m, ns, imps) == [moduleName |-> m, nodes |-> ns, imports |-> imps]

Docs ==
  { Doc("X", {"x"}, "M" :> <<"s", "t">>),
    Doc("X", {}, "M" :> <<"s">>),
    Doc("M", {"s"}, EmptyDict),
    Doc("M", {}, EmptyDict),
    Doc("M", {"u"}, "X" :> <<"x">>),
    Doc("Y", {"y"}, ("M" :> <<>>) @@ ("X" :> <<"x">>)) }

ModuleNames == { d.moduleName : d \in Docs }

\* the docs of the files found under BASE_DIR
AutoDocs ==
  { Doc("X", {"x"}, "M" :> <<"s", "t">>),
    Doc("M", {"s"}, EmptyDict),
    Doc("M", {"u"}, "X" :> <<"x">>) }

\* the paths of the files under BASE_DIR, relative to it
AutoPaths == << <<"mibs", "a.mib">>, <<"mibs", "b.mib">> >>

AutoFiles ==
  UNION { { [i \in 1..n |-> [rel |-> AutoPaths[i], doc |-> ds[i]]] : ds \in [1..n -> AutoDocs] } :
          n \in 0..Len(AutoPaths) }

UploadNames == { "u.mib", "v.mib" }

\* del d[k]
DictDel(d, k) ==
  IF DOMAIN d \ {k} = {} THEN EmptyDict ELSE [x \in DOMAIN d \ {k} |-> d[x]]

\* the orders in which iterdir() can give the files of set S
Orderings(S) == { o \in [1..Cardinality(S) -> S] : IsInjective(o) }

\* the files of UPLOAD_DIR in the order ord, with the path parse_sources
\* gives them
UploadFiles(upl, ord) ==
  [i \in 1..Len(ord) |-> [rel |-> <<"Uploads", ord[i]>>, doc |-> upl[ord[i]]]]

\* the two loops of parse_sources, as if a module name that is stored were
\* never stored again
RECURSIVE LoadFilesFirstWins(_, _, _, _)
LoadFilesFirstWins(files, i, C, P) ==
  IF i > Len(files) THEN [C |-> C, P |-> P]
  ELSE LET mod == files[i].doc.moduleName IN
       IF mod \in DOMAIN C THEN LoadFilesFirstWins(files, i + 1, C, P)
       ELSE LoadFilesFirstWins(files, i + 1, DictSet(C, mod, files[i].doc),
                               DictSet(P, mod, files[i].rel))

\* the two loops of parse_sources over the files: COMPILED and MOD_TO_PATH
RECURSIVE LoadFiles(_, _, _, _)
LoadFiles(files, i, C, P) ==
  IF i > Len(files) THEN [C |-> C, P |-> P]
  ELSE LET mod == files[i].doc.moduleName IN
       LoadFiles(files, i + 1, DictSet(C, mod, files[i].doc), DictSet(P, mod, files[i].rel))

\* MODULE_EXPORTS as parse_sources rebuilds it
Exports(C) ==
  IF DOMAIN C = {} THEN EmptyDict ELSE [m \in DOMAIN C |-> C[m].nodes]

\* take, as if a symbol of an unknown exporter were not kept
TakeDefinedOnly(syms, defined) == SelectSeq(syms, LAMBDA x : x \in defined)

\* take = [s for s in syms if (s in defined) or not defined]
Take(syms, defined) == SelectSeq(syms, LAMBDA x : x \in defined \/ defined = {})

\* the importers of from_mod that get an entry: the ones with symbols
ImportersOf(C, from_mod) ==
  { i \in DOMAIN C : /\ from_mod \in DOMAIN C[i].imports
                     /\ C[i].imports[from_mod] # <<>> }

\* IMPORTED_BY as parse_sources rebuilds it
ImportedBy(C, E) ==
  LET froms == { m \in UNION { DOMAIN C[i].imports : i \in DOMAIN C } :
                   ImportersOf(C, m) # {} }
  IN IF froms = {} THEN EmptyDict
     ELSE [m \in froms |->
            [i \in ImportersOf(C, m) |->
               Take(C[i].imports[m], IF m \in DOMAIN E THEN E[m] ELSE {})]]

\* MODULE_EXPORTS as if remove_module left it as it is
RemoveExportsStale(C) == MODULE_EXPORTS

\* MODULE_EXPORTS as remove_module rebuilds it
RemoveExports(C) ==
  IF DOMAIN C = {} THEN EmptyDict ELSE [m \in DOMAIN C |-> C[m].nodes]

\* IMPORTED_BY as if remove_module left it as it is
RemoveImportedByStale(C, E) == IMPORTED_BY

\* IMPORTED_BY as remove_module rebuilds it
RemoveImportedBy(C, E) ==
  LET froms == { m \in UNION { DOMAIN C[i].imports : i \in DOMAIN C } :
                   ImportersOf(C, m) # {} }
  IN IF froms = {} THEN EmptyDict
     ELSE [m \in froms |->
            [i \in ImportersOf(C, m) |->
               Take(C[i].imports[m], IF m \in DOMAIN E THEN E[m] ELSE {})]]

\* the registry of a run that only parses or scans
RegIdle ==
  /\ started = FALSE
  /\ auto = <<>>
  /\ uploads = EmptyDict
  /\ COMPILED = EmptyDict
  /\ MOD_TO_PATH = EmptyDict
  /\ MODULE_EXPORTS = EmptyDict
  /\ IMPORTED_BY = EmptyDict
  /\ r_impl = "none"
  /\ loaded = <<>>
  /\ call = <<>>

\* no search runs
SearchIdle ==
  /\ s_impl = "none"
  /\ s_mods = <<>>
  /\ term = <<>>
  /\ s_pc = "idle"
  /\ s_mi = 0
  /\ s_ni = 0
  /\ hits = <<>>
  /\ late = 0

\* no flat list is made
\* no request threads run
ConcIdle ==
  /\ thr = <<>>
  /\ seen = <<>>

FlatIdle ==
  /\ f_impl = "none"
  /\ f_nodes = <<>>
  /\ f_pc = "idle"
  /\ flat = <<>>

TextIdle ==
  /\ text = <<>>
  /\ truth = [kind |-> "none", name |-> <<>>, imports |-> <<>>, enums |-> <<>>]
  /\ tpc = "idle"
  /\ out = <<>>

ParseInit ==
  /\ ConcIdle
  /\ impl \in {"parser", "mib_browser"}
  /\ decls \in Inputs
  /\ pc = "start"
  /\ nodes = EmptyDict
  /\ order = <<>>
  /\ oid_map = EmptyDict
  /\ sym2oid = EmptyDict
  /\ idx = 0
  /\ passes = 0
  /\ resolved_in_pass = FALSE
  /\ doc = <<>>
  /\ first = [set |-> FALSE, oids |-> EmptyDict]
  /\ TextIdle
  /\ RegIdle
  /\ SearchIdle
  /\ FlatIdle

ParseNext == ParserNext \/ BrowserNext

ParseSpec == ParseInit /\ [][ParseNext]_vars

----------------------------------------------------------------------------
(* The same declarations parsed a second time, in another order of the text *)

\* the oid each name ends with: <<has an oid, the oid>>
OidsOf(ns) == [ n \in DOMAIN ns |-> <<ns[n].has_oid, ns[n].oid>> ]

Reorderings(ds) ==
  { s \in [DOMAIN ds -> Range(ds)] : IsInjective(s) /\ s # ds }

Reparse ==
  /\ pc = "done" /\ ~first.set
  /\ first' = [set |-> TRUE, oids |-> OidsOf(nodes)]
  /\ decls' \in Reorderings(decls)
  /\ pc' = "start"
  /\ nodes' = EmptyDict
  /\ order' = <<>>
  /\ oid_map' = EmptyDict
  /\ sym2oid' = EmptyDict
  /\ idx' = 0
  /\ passes' = 0
  /\ resolved_in_pass' = FALSE
  /\ doc' = <<>>
  /\ UNCHANGED impl
  /\ UNCHANGED nonParseVars

OrderInit == ParseInit /\ DistinctNames(decls)

OrderNext == ParseNext \/ Reparse

OrderSpec == OrderInit /\ [][OrderNext]_vars

----------------------------------------------------------------------------
(* Texts and regular expressions.  A text is a sequence of one-character   *)
(* strings; an index 0 stands for "no match".                              *)

Upper ==
  {"A", "B", "C", "D", "E", "F", "G", "H", "I", "J", "K", "L", "M", "N", "O", "P", "Q", "R", "S", "T", "U", "V", "W", "X", "Y", "Z"}

Lower ==
  {"a", "b", "c", "d", "e", "f", "g", "h", "i", "j", "k", "l", "m", "n", "o", "p", "q", "r", "s", "t", "u", "v", "w", "x", "y", "z"}

Digit == {"0", "1", "2", "3", "4", "5", "6", "7", "8", "9"}

\* \s, over the characters of the model
Space == {" ", "\t", "\n", "\r"}

\* \w
Word == Upper \cup Lower \cup Digit \cup {"_"}

\* whether the literal lit occurs in t at index i
StartsWith(t, i, lit) ==
  /\ i >= 1
  /\ i + Len(lit) - 1 <= Len(t)
  /\ SubSeq(t, i, i + Len(lit) - 1) = lit

\* the first index k of lo..hi with (t[k] \in cs) = want, 0 when there is
\* none; the interval is halved so that a long text is no deep recursion
RECURSIVE FirstIn(_, _, _, _, _)
FirstIn(t, lo, hi, cs, want) ==
  IF lo > hi THEN 0
  ELSE IF lo = hi THEN (IF (t[lo] \in cs) = want THEN lo ELSE 0)
  ELSE LET mid == (lo + hi) \div 2
           l   == FirstIn(t, lo, mid, cs, want)
       IN IF l # 0 THEN l ELSE FirstIn(t, mid + 1, hi, cs, want)

\* the first index k of lo..hi where the literal lit occurs in t, 0 when
\* there is none
RECURSIVE FirstLit(_, _, _, _)
FirstLit(t, lo, hi, lit) ==
  IF lo > hi THEN 0
  ELSE IF lo = hi THEN (IF StartsWith(t, lo, lit) THEN lo ELSE 0)
  ELSE LET mid == (lo + hi) \div 2
           l   == FirstLit(t, lo, mid, lit)
       IN IF l # 0 THEN l ELSE FirstLit(t, mid + 1, hi, lit)

\* the first index >= i of a character of set cs, 0 when there is none
FindChar(t, i, cs) == FirstIn(t, i, Len(t), cs, TRUE)

\* the first index >= i of a character outside cs, Len(t) + 1 when there is none:
\* where a greedy cs* that starts at i stops
Skip(t, i, cs) ==
  LET k == FirstIn(t, i, Len(t), cs, FALSE) IN
  IF k # 0 THEN k ELSE IF i > Len(t) THEN i ELSE Len(t) + 1

\* where '.*' or '[^\n]*' that starts at i stops
LineEnd(t, i) == Skip(t, i, Upper \cup Lower \cup Digit \cup
                            {"_", "-", " ", "\t", "\r", "\"", ",", ";", ":", "=",
                             "(", ")", "{", "}", "."})

\* re.sub(r'--.*', '', t) and RE_LINE_COMMENT.sub("", t), from index i on
RECURSIVE SubLineComment(_, _)
SubLineComment(t, i) ==
  LET k == FirstLit(t, i, Len(t), <<"-", "-">>) IN
  IF k = 0 THEN SubSeq(t, i, Len(t))
  ELSE SubSeq(t, i, k - 1) \o SubLineComment(t, LineEnd(t, k + 2))

\* t.replace(lit, ''), from index i on
RECURSIVE Remove(_, _, _)
Remove(t, lit, i) ==
  LET k == FirstLit(t, i, Len(t), lit) IN
  IF k = 0 THEN SubSeq(t, i, Len(t))
  ELSE SubSeq(t, i, k - 1) \o Remove(t, lit, k + Len(lit))

\* SmiV2Parser.__init__: self.raw
ParserNormalize(t) ==
  Remove(Remove(SubLineComment(t, 1), <<"-", "\n">>, 1), <<"\r">>, 1)

\* strip_comments, from index i on: RE_QUOTED.finditer pairs the quotes from
\* the left; what lies between two pairs, and the tail, lose their comments
RECURSIVE StripFrom(_, _)
StripFrom(t, i) ==
  LET q  == FindChar(t, i, {"\""})
      q2 == IF q = 0 THEN 0 ELSE FindChar(t, q + 1, {"\""})
  IN IF q2 = 0 THEN SubLineComment(SubSeq(t, i, Len(t)), 1)
     ELSE SubLineComment(SubSeq(t, i, q - 1), 1) \o SubSeq(t, q, q2)
            \o StripFrom(t, q2 + 1)

strip_comments(t) == StripFrom(t, 1)

----------------------------------------------------------------------------
(* The module header *)

Lit_DEFINITIONS == <<"D", "E", "F", "I", "N", "I", "T", "I", "O", "N", "S">>

Lit_ASSIGN == <<":", ":", "=">>

Lit_BEGIN == <<"B", "E", "G", "I", "N">>

\* a value that is no text: Python's None
None == <<"None">>

\* \s+DEFINITIONS\s*::=\s*BEGIN matched at index j
HeaderRest(t, j) ==
  LET k1 == Skip(t, j, Space)
      k2 == Skip(t, k1 + Len(Lit_DEFINITIONS), Space)
      k3 == Skip(t, k2 + Len(Lit_ASSIGN), Space)
  IN /\ k1 > j
     /\ StartsWith(t, k1, Lit_DEFINITIONS)
     /\ StartsWith(t, k2, Lit_ASSIGN)
     /\ StartsWith(t, k3, Lit_BEGIN)

\* [a-zA-Z0-9-]
ParserNameCh == Upper \cup Lower \cup Digit \cup {"-"}

\* [a-zA-Z0-9] : the class of ParserNameCh without the hyphen
AlnumCh == Upper \cup Lower \cup Digit

\* the least index of set S of indexes, 0 when S is empty
Least(S) == IF S = {} THEN 0 ELSE CHOOSE i \in S : \A j \in S : i <= j

\* _get_module_name with the name class cs: re.search tries every start
\* index from the left; the greedy group takes the whole run of cs
GetModuleNameWith(raw, cs) ==
  LET i == Least({ k \in 1..Len(raw) :
                     /\ raw[k] \in cs
                     /\ HeaderRest(raw, Skip(raw, k, cs)) })
  IN IF i = 0 THEN None ELSE SubSeq(raw, i, Skip(raw, i, cs) - 1)

\* _get_module_name as if its class were [a-zA-Z0-9]+
GetModuleNameNoHyphen(raw) == GetModuleNameWith(raw, AlnumCh)

_get_module_name(raw) == GetModuleNameWith(raw, ParserNameCh)

\* [A-Za-z0-9\-._]
BrowserNameCh == Upper \cup Lower \cup Digit \cup {"-", ".", "_"}

\* where '^' of a re.M pattern matches
LineStarts(t) == { k \in 1..Len(t) : k = 1 \/ t[k - 1] = "\n" }

\* RE_HEADER matched at the line start k: the index of the name, 0 for no match
HeaderAt(t, k) ==
  LET n == Skip(t, k, Space) IN
  IF /\ n <= Len(t)
     /\ t[n] \in Upper \cup Lower
     /\ HeaderRest(t, Skip(t, n + 1, BrowserNameCh))
  THEN n ELSE 0

\* find_module_name: RE_HEADER.search(text)
find_module_name(t) ==
  LET k == Least({ x \in LineStarts(t) : HeaderAt(t, x) # 0 }) IN
  IF k = 0 THEN None
  ELSE LET n == HeaderAt(t, k) IN SubSeq(t, n, Skip(t, n + 1, BrowserNameCh) - 1)

UnknownModule == <<"(", "u", "n", "k", "n", "o", "w", "n", "-", "m", "o", "d", "u", "l", "e", ")">>

\* parse() as if it also gave up on a module without nodes
ParserParseNeedsNodes(t, ds) ==
  LET name == _get_module_name(ParserNormalize(t))
      ns   == DOMAIN Pass1From(ds, 1, EmptyDict, <<>>)[1]
  IN IF name = None \/ ns = {} THEN [module_name |-> None, data |-> FALSE, nodes |-> {}]
     ELSE [module_name |-> name, data |-> TRUE, nodes |-> ns]

\* SmiV2Parser(text).parse(), lines 14-30: the module name and the keys of
\* nodes_map; (None, {}) when there is no header
ParserParse(t, ds) ==
  LET name == _get_module_name(ParserNormalize(t)) IN
  IF name = None THEN [module_name |-> None, data |-> FALSE, nodes |-> {}]
  ELSE [module_name |-> name, data |-> TRUE,
        nodes |-> DOMAIN Pass1From(ds, 1, EmptyDict, <<>>)[1]]

\* the names parse_mib_text stores a node under (lines 1185-1330)
BrowserNodeNames(ds) ==
  { ds[i].name : i \in { j \in DOMAIN ds : ds[j].klass # "MODULE-IDENTITY"
                                        /\ ds[j].klass # "TRAP-TYPE" } }

\* parse_mib_text(text), lines 1152-1153 and 1338-1344: moduleName and the
\* keys of nodes
BrowserParse(t, ds) ==
  LET name == find_module_name(strip_comments(t)) IN
  [ module_name |-> IF name # None THEN name ELSE UnknownModule,
    data |-> TRUE, nodes |-> BrowserNodeNames(ds) ]

----------------------------------------------------------------------------
(* The IMPORTS clause *)

Lit_IMPORTS == <<"I", "M", "P", "O", "R", "T", "S">>

Lit_FROM == <<"F", "R", "O", "M">>

\* s.strip(cs) for a set cs of characters
RECURSIVE RStripCs(_, _)
RStripCs(s, cs) ==
  IF s # <<>> /\ s[Len(s)] \in cs THEN RStripCs(SubSeq(s, 1, Len(s) - 1), cs) ELSE s

StripCs(s, cs) == RStripCs(SubSeq(s, Skip(s, 1, cs), Len(s)), cs)

\* s.strip()
WsStrip(s) == StripCs(s, Space)

\* s.split(c) as if it gave the first piece only
SplitFirst(s, c) ==
  LET k == FindChar(s, 1, {c}) IN IF k = 0 THEN <<s>> ELSE <<SubSeq(s, 1, k - 1)>>

\* s.split(c)
RECURSIVE Split(_, _)
Split(s, c) ==
  LET k == FindChar(s, 1, {c}) IN
  IF k = 0 THEN <<s>>
  ELSE <<SubSeq(s, 1, k - 1)>> \o Split(SubSeq(s, k + 1, Len(s)), c)

\* [x.strip() for x in s.split(',') if x.strip()]
Items(s) ==
  LET parts == Split(s, ",") IN
  SelectSeq([i \in 1..Len(parts) |-> WsStrip(parts[i])], LAMBDA x : x # <<>>)

\* s.replace('\n', ' ')
NewlinesToSpaces(s) == [i \in 1..Len(s) |-> IF s[i] = "\n" THEN " " ELSE s[i]]

\* s.splitlines(): a line ends at \n, \r or \r\n
RECURSIVE SplitLines(_)
SplitLines(s) ==
  IF s = <<>> THEN <<>>
  ELSE LET k == FindChar(s, 1, {"\n", "\r"}) IN
       IF k = 0 THEN <<s>>
       ELSE LET n == IF s[k] = "\r" /\ k < Len(s) /\ s[k + 1] = "\n" THEN k + 2 ELSE k + 1
            IN <<SubSeq(s, 1, k - 1)>> \o SplitLines(SubSeq(s, n, Len(s)))

\* " ".join(parts)
RECURSIVE Join(_)
Join(parts) ==
  IF parts = <<>> THEN <<>>
  ELSE IF Len(parts) = 1 THEN parts[1]
  ELSE parts[1] \o <<" ">> \o Join(Tail(parts))

\* \b at index i: between t[i-1] and t[i]
IsWordAt(t, i) == i >= 1 /\ i <= Len(t) /\ t[i] \in Word

Boundary(t, i) == IsWordAt(t, i - 1) # IsWordAt(t, i)

\* parser.py line 37: group 1 of IMPORTS\s+(.*?); as <<first, last>> indexes,
\* <<0, 0>> for no match
ParserImportsGroup(raw) ==
  LET ok(k) == /\ StartsWith(raw, k, Lit_IMPORTS)
               /\ Skip(raw, k + 7, Space) > k + 7
               /\ FindChar(raw, Skip(raw, k + 7, Space), {";"}) # 0
      i == Least({ k \in 1..Len(raw) : ok(k) })
  IN IF i = 0 THEN <<0, 0>>
     ELSE <<Skip(raw, i + 7, Space), FindChar(raw, Skip(raw, i + 7, Space), {";"}) - 1>>

\* [\w\d\s,-]
ParserItemCh == Word \cup Space \cup {",", "-"}

\* \s+FROM\s+([a-zA-Z0-9-]+) matched at index e: the index of the module
\* name, 0 for no match
ParserFromAt(b, e) ==
  LET n1 == Skip(b, e, Space)
      n2 == Skip(b, n1 + 4, Space)
  IN IF /\ n1 > e /\ StartsWith(b, n1, Lit_FROM)
        /\ n2 > n1 + 4 /\ Skip(b, n2, ParserNameCh) > n2
     THEN n2 ELSE 0

\* the end of the lazy group ([\w\d\s,-]+?) that starts at i, 0 for no match
ParserItemsEnd(b, i) ==
  Least({ e \in (i + 1)..Skip(b, i, ParserItemCh) : ParserFromAt(b, e) # 0 })

\* re.findall over the block from index pos on, and the loop of lines 40-42
RECURSIVE ParserClauses(_, _, _)
ParserClauses(b, pos, imports) ==
  LET i == Least({ k \in pos..Len(b) : ParserItemsEnd(b, k) # 0 }) IN
  IF i = 0 THEN imports
  ELSE LET e  == ParserItemsEnd(b, i)
           n  == ParserFromAt(b, e)
           n3 == Skip(b, n, ParserNameCh)
       IN ParserClauses(b, n3,
            DictSet(imports, SubSeq(b, n, n3 - 1),
                    Items(NewlinesToSpaces(SubSeq(b, i, e - 1)))))

_get_imports(raw) ==
  LET g == ParserImportsGroup(raw) IN
  IF g[1] = 0 THEN EmptyDict ELSE ParserClauses(SubSeq(raw, g[1], g[2]), 1, EmptyDict)

\* RE_IMPORTS_BLOCK: the index of IMPORTS, 0 for no match
ImportsBlockAt(src) ==
  Least({ k \in 1..Len(src) :
            /\ StartsWith(src, k, Lit_IMPORTS)
            /\ Boundary(src, k) /\ Boundary(src, k + 7)
            /\ FindChar(src, k + 7, {";"}) # 0 })

\* \bFROM\s+([A-Za-z][\w\-]*) matched in t[pos:] at index k: the index of
\* the module name, 0 for no match
BrowserFromAt(t, pos, k) ==
  LET n == Skip(t, k + 4, Space) IN
  IF /\ StartsWith(t, k, Lit_FROM)
     /\ (k = pos \/ t[k - 1] \notin Word)
     /\ n > k + 4 /\ n <= Len(t) /\ t[n] \in Upper \cup Lower
  THEN n ELSE 0

\* the while loop of lines 990-1003
RECURSIVE BrowserClauses(_, _, _)
BrowserClauses(t, pos, imports) ==
  LET k == Least({ x \in pos..Len(t) : BrowserFromAt(t, pos, x) # 0 }) IN
  IF k = 0 THEN imports
  ELSE LET n    == BrowserFromAt(t, pos, k)
           n3   == Skip(t, n + 1, Word \cup {"-"})
           mod  == SubSeq(t, n, n3 - 1)
           syms == Items(StripCs(WsStrip(SubSeq(t, pos, k - 1)), {","}))
       IN BrowserClauses(t, n3, DictSet(imports, mod, DictGet(imports, mod) \o syms))

\* ^[A-Za-z][A-Za-z0-9\-]*$ on a stripped symbol
IsIdentifier(x) ==
  /\ x # <<>>
  /\ x[1] \in Upper \cup Lower
  /\ \A i \in 2..Len(x) : x[i] \in Upper \cup Lower \cup Digit \cup {"-"}

parse_imports_block(src) ==
  LET i == ImportsBlockAt(src) IN
  IF i = 0 THEN EmptyDict
  ELSE LET block == SubSeq(src, i + 7, FindChar(src, i + 7, {";"}) - 1)
           lines == SplitLines(block)
           t     == Join([j \in 1..Len(lines) |-> WsStrip(lines[j])])
           found == BrowserClauses(t, 1, EmptyDict)
       IN [m \in DOMAIN found |-> SelectSeq(found[m], IsIdentifier)]

----------------------------------------------------------------------------
(* The text functions applied to one raw text *)

\* the characters of the short texts that are tried exhaustively
FreeAlphabet == {"a", "-", "\n", "\r", "\""}

FreeTexts == UNION { [1..n -> FreeAlphabet] : n \in 0..MaxText }

\* Texts with a module header, put together from parts.  A header starts a
\* line; its name is a module reference of SMIv2: letters, digits and single
\* hyphens, first a letter, last no hyphen.
HeaderPre ==
  { <<>>, <<"\n">>, <<" ", " ">>, <<"-", "-", " ", "c", "\n">>, <<"-", "-", " ", "X", " ", "D", "E", "F", "I", "N", "I", "T", "I", "O", "N", "S", " ", ":", ":", "=", " ", "B", "E", "G", "I", "N", "\r", "\n">>, <<"j", "u", "n", "k", "\n">> }

HeaderNames == { <<"A">>, <<"I", "F", "-", "M", "I", "B">>, <<"S", "N", "M", "P", "v", "2", "-", "S", "M", "I">> }

HeaderSep1 == { <<" ">>, <<"\n">>, <<"\t", " ">>, <<"\r", "\n">> }

HeaderSep2 == { <<>>, <<" ">> }

\* which part of the first header is damaged: none, the keyword, ::= or BEGIN
HeaderBreaks == { "none", "keyword", "assign", "begin" }

SecondHeader == <<"\n", "B", " ", "D", "E", "F", "I", "N", "I", "T", "I", "O", "N", "S", " ", ":", ":", "=", " ", "B", "E", "G", "I", "N", "\n">>

HeaderPost == { <<>>, <<"\n", "E", "N", "D", "\n">>, SecondHeader }

HeaderText(pre, name, sep1, sep2, brk, post) ==
  pre \o name \o sep1
    \o (IF brk = "keyword" THEN <<"D", "E", "F", "I", "N", "I", "T", "I", "O", "N">> ELSE Lit_DEFINITIONS) \o sep2
    \o (IF brk = "assign" THEN <<":", "=">> ELSE Lit_ASSIGN) \o sep2
    \o (IF brk = "begin" THEN <<>> ELSE Lit_BEGIN) \o post

\* the name of the first well-formed header of HeaderText(...), None without one
HeaderTruth(name, brk, post) ==
  IF brk = "none" THEN name
  ELSE IF post = SecondHeader THEN <<"B">>
  ELSE None

HeaderInputs ==
  { <<HeaderText(pre, name, sep1, sep2, brk, post), HeaderTruth(name, brk, post)>> :
      pre \in HeaderPre, name \in HeaderNames, sep1 \in HeaderSep1,
      sep2 \in HeaderSep2, brk \in HeaderBreaks, post \in HeaderPost }

\* the declarations scanned from a text with a header
HeaderDecls == { <<>>, <<Decl("org", "OBJECT IDENTIFIER", <<Id("iso"), Num("3")>>)>> }

\* Texts with an IMPORTS clause, put together from parts
MaxSyms == 2

ImportSymbols == { <<"a">>, <<"m", "i", "b", "-", "2">>, <<"C", "o", "u", "n", "t", "e", "r", "3", "2">> }

ImportLists == UNION { [1..n -> ImportSymbols] : n \in 1..MaxSyms }

ImportModules == { <<"M">>, <<"S", "N", "M", "P", "v", "2", "-", "S", "M", "I">> }

SecondSymbol == <<"t", "2">>

SecondModule == <<"N", "-", "M", "I", "B">>

ImportPre == { <<>>, <<"A", " ", "D", "E", "F", "I", "N", "I", "T", "I", "O", "N", "S", " ", ":", ":", "=", " ", "B", "E", "G", "I", "N", "\n">> }

ImportSepA == { <<" ">>, <<"\r", "\n", " ", " ">> }

ImportCommas == { <<",">>, <<",", " ">>, <<",", "\n", " ", " ", " ", " ">>, <<" ", ",", " ", "-", "-", " ", "c", "\r", "\n", " ">> }

\* the white space before FROM, after FROM and before the semicolon
ImportStyles ==
  { [bf |-> <<" ">>, af |-> <<" ">>, bs |-> <<>>],
    [bf |-> <<"\r", "\n", " ", " ", " ", " ">>, af |-> <<"\t">>, bs |-> <<"\n">>] }

ImportPost == <<"\n", "x", " ", ":", ":", "=", " ", "1", ";", "\n">>

RECURSIVE JoinSyms(_, _)
JoinSyms(syms, comma) ==
  IF Len(syms) = 1 THEN syms[1]
  ELSE syms[1] \o comma \o JoinSyms(Tail(syms), comma)

ImportsText(pre, sepA, syms, comma, st, mod, second) ==
  pre \o Lit_IMPORTS \o sepA \o JoinSyms(syms, comma)
    \o st.bf \o Lit_FROM \o st.af \o mod
    \o (IF second THEN st.bf \o SecondSymbol \o st.bf \o Lit_FROM \o st.af \o SecondModule
        ELSE <<>>)
    \o st.bs \o <<";">> \o ImportPost

\* the import edges written in ImportsText(...)
ImportsTruth(syms, mod, second) ==
  IF second THEN DictSet(DictSet(EmptyDict, mod, syms), SecondModule, <<SecondSymbol>>)
  ELSE DictSet(EmptyDict, mod, syms)

ImportInputs ==
  { <<ImportsText(pre, sepA, syms, comma, st, mod, second), ImportsTruth(syms, mod, second)>> :
      pre \in ImportPre, sepA \in ImportSepA, syms \in ImportLists,
      comma \in ImportCommas, st \in ImportStyles, mod \in ImportModules,
      second \in BOOLEAN }

----------------------------------------------------------------------------
(* parser.py on a whole module text: the pattern of _pass1_discover_nodes  *)
(* read character by character, the oid strings of _pass2_resolve_oids and *)
(* the int() calls of _pass3_build_tree                                    *)

\* the character U+00B2, a digit for str.isdigit() and none for int()
Sup2 == "SUPERSCRIPT TWO"

\* the keyword alternatives of the pattern, in its order
ParserKlassTexts ==
  << <<"O", "B", "J", "E", "C", "T", "-", "T", "Y", "P", "E">>,
     <<"O", "B", "J", "E", "C", "T", " ", "I", "D", "E", "N", "T", "I", "F", "I", "E", "R">>,
     <<"M", "O", "D", "U", "L", "E", "-", "I", "D", "E", "N", "T", "I", "T", "Y">>,
     <<"O", "B", "J", "E", "C", "T", "-", "G", "R", "O", "U", "P">>,
     <<"N", "O", "T", "I", "F", "I", "C", "A", "T", "I", "O", "N", "-", "T", "Y", "P", "E">>,
     <<"T", "R", "A", "P", "-", "T", "Y", "P", "E">>,
     <<"T", "E", "X", "T", "U", "A", "L", "-", "C", "O", "N", "V", "E", "N", "T", "I", "O", "N">> >>

\* the keyword that stands in t at index b: its number in ParserKlassTexts,
\* 0 when there is none
KlassAt(t, b) ==
  Least({ k \in DOMAIN ParserKlassTexts : StartsWith(t, b, ParserKlassTexts[k]) })

\* the first index e >= i where '::=\s*\{' matches, 0 when there is none
RECURSIVE FindAssignBrace(_, _)
FindAssignBrace(t, i) ==
  LET e == FirstLit(t, i, Len(t), Lit_ASSIGN) IN
  IF e = 0 THEN 0
  ELSE IF Skip(t, e + 3, Space) <= Len(t) /\ t[Skip(t, e + 3, Space)] = "{" THEN e
  ELSE FindAssignBrace(t, e + 1)

NoMatch == [ok |-> FALSE]

\* the match of the pattern that starts at index i.  A name, the white space
\* after it and the keyword can end in one place only; the lazy body ends at
\* the first '::=' that an opening brace follows, the lazy arc expression at
\* the first closing brace.
DeclMatchAt(t, i) ==
  LET a == Skip(t, i, ParserNameCh)
      b == Skip(t, a, Space)
      k == KlassAt(t, b)
      c == b + Len(ParserKlassTexts[k])
      d == Skip(t, c, Space)
      e == FindAssignBrace(t, d)
      f == Skip(t, e + 3, Space)
      g == FindChar(t, f + 1, {"}"})
  IN IF a > i /\ b > a /\ k # 0 /\ d > c /\ e # 0 /\ g # 0
     THEN [ok |-> TRUE, name |-> SubSeq(t, i, a - 1), klass |-> ParserKlassTexts[k],
           body |-> SubSeq(t, d, e - 1), oid_def |-> WsStrip(SubSeq(t, f + 1, g - 1)),
           end |-> g]
     ELSE NoMatch

\* pattern.finditer(self.raw) from index pos on: the matches, left to right.
\* Where no match starts at a name, none starts inside that name.
RECURSIVE FindDecls(_, _)
FindDecls(t, pos) ==
  IF pos > Len(t) THEN <<>>
  ELSE IF t[pos] \notin ParserNameCh
       THEN FindDecls(t, Skip(t, pos, {x \in Range(t) : x \notin ParserNameCh}))
       ELSE LET m == DeclMatchAt(t, pos) IN
            IF m.ok THEN <<m>> \o FindDecls(t, m.end + 1)
            ELSE FindDecls(t, Skip(t, pos, ParserNameCh))

Lit_MACRO == <<"M", "A", "C", "R", "O">>

\* klass.replace(' ', '-')
KlassDashText(klass) == [i \in DOMAIN klass |-> IF klass[i] = " " THEN "-" ELSE klass[i]]

\* _pass1_discover_nodes: the names of self.nodes in the order of the dict
\* and the node of each; ms are the matches
RECURSIVE Pass1Text(_, _, _, _)
Pass1Text(ms, i, ns, ord) ==
  IF i > Len(ms) THEN [nodes |-> ns, order |-> ord]
  ELSE LET m == ms[i] IN
       IF m.name = Lit_MACRO THEN Pass1Text(ms, i + 1, ns, ord)
       ELSE Pass1Text(ms, i + 1,
                      DictSet(ns, m.name, [klass |-> KlassDashText(m.klass),
                                           oid_def |-> m.oid_def]),
                      IF m.name \in DOMAIN ns THEN ord ELSE Append(ord, m.name))

\* s.split()
RECURSIVE SplitWs(_)
SplitWs(s) ==
  LET i == Skip(s, 1, Space) IN
  IF i > Len(s) THEN <<>>
  ELSE LET j == Skip(s, i, {x \in Range(s) : x \notin Space})
       IN <<SubSeq(s, i, j - 1)>> \o SplitWs(SubSeq(s, j, Len(s)))

\* s.isdigit()
PyIsDigit(s) == s # <<>> /\ \A i \in DOMAIN s : s[i] \in Digit \cup {Sup2}

\* whether int(s) returns
IntReturns(s) == s # <<>> /\ \A i \in DOMAIN s : s[i] \in Digit

\* _parse_oid_def of the text oid_def: <<parent_name, sub_id>>, <<>> for
\* (None, None)
ParseOidDefText(oid_def) ==
  LET parts == SplitWs(oid_def) IN
  IF Len(parts) = 2 THEN parts
  ELSE IF Len(parts) = 1 /\ PyIsDigit(parts[1]) THEN << <<"i", "s", "o">>, parts[1] >>
  ELSE <<>>

\* one run of the for loop of _pass2_resolve_oids from the i-th node on;
\* st.om is oid_map and st.oid the oid of each node that has one
RECURSIVE Pass2For(_, _, _, _)
Pass2For(ns, ord, i, st) ==
  IF i > Len(ord) THEN st
  ELSE LET name == ord[i]
           pr   == ParseOidDefText(ns[name].oid_def)
           poid == IF pr = <<>> THEN <<>>
                   ELSE IF DictGet(st.om, pr[1]) # <<>> THEN DictGet(st.om, pr[1])
                   ELSE DictGet(st.oid, pr[1])
       IN IF name \in DOMAIN st.oid \/ pr = <<>> \/ poid = <<>> \/ ~PyIsDigit(pr[2])
          THEN Pass2For(ns, ord, i + 1, st)
          ELSE LET oid == poid \o <<".">> \o pr[2] IN
               Pass2For(ns, ord, i + 1,
                        [om |-> DictSet(st.om, name, oid), oid |-> DictSet(st.oid, name, oid)])

\* the while loop of _pass2_resolve_oids: the for loop again until it
\* resolves nothing
RECURSIVE Pass2Text(_, _, _)
Pass2Text(ns, ord, st) ==
  LET next == Pass2For(ns, ord, 1, st) IN
  IF next = st THEN st ELSE Pass2Text(ns, ord, next)

\* whether the sort of _pass3_build_tree raises: int(i) of a segment of the
\* oid of a node
Pass3Raises(oids) ==
  \E name \in DOMAIN oids :
    \E i \in DOMAIN Split(oids[name], ".") : ~IntReturns(Split(oids[name], ".")[i])

\* SmiV2Parser(text).parse(): whether it raises and the nodes of nodes_map
ParseText(t) ==
  LET raw == ParserNormalize(t)
      p1  == Pass1Text(FindDecls(raw, 1), 1, EmptyDict, <<>>)
      p2  == Pass2Text(p1.nodes, p1.order,
                       [om |-> <<"i", "s", "o">> :> <<"1">>, oid |-> EmptyDict])
  IN IF _get_module_name(raw) = None THEN [raised |-> FALSE, nodes |-> EmptyDict]
     ELSE IF Pass3Raises(p2.oid) THEN [raised |-> TRUE, nodes |-> EmptyDict]
     ELSE [raised |-> FALSE, nodes |-> p1.nodes]

\* The declarations a module text is written from: the text, what a parse
\* should make of it, and what is wrong with it: "good" nothing, "arc" an
\* arc expression of one name, "parent" a parent nobody declares, "field" no
\* SYNTAX, "nobrace" an arc expression without braces, "noarc" no arc
\* expression at all, "digit" an arc number that is no ASCII digit
TextDecl(t, name, klass, oid_def, form) ==
  [text |-> t, name |-> name, klass |-> klass, oid_def |-> oid_def, form |-> form]

TextDecls ==
  { TextDecl(<<"g", " ", "O", "B", "J", "E", "C", "T", " ", "I", "D", "E", "N", "T", "I", "F", "I", "E", "R", " ", ":", ":", "=", " ", "{", " ", "i", "s", "o", " ", "3", " ", "}">>,
             <<"g">>, <<"O", "B", "J", "E", "C", "T", " ", "I", "D", "E", "N", "T", "I", "F", "I", "E", "R">>, <<"i", "s", "o", " ", "3">>, "good"),
    TextDecl(<<"h", " ", "O", "B", "J", "E", "C", "T", "-", "T", "Y", "P", "E", " ", "S", "Y", "N", "T", "A", "X", " ", "I", "n", "t", "e", "g", "e", "r", "3", "2", " ", ":", ":", "=", " ", "{", " ", "g", " ", "1", " ", "}">>,
             <<"h">>, <<"O", "B", "J", "E", "C", "T", "-", "T", "Y", "P", "E">>, <<"g", " ", "1">>, "good"),
    TextDecl(<<"b", " ", "O", "B", "J", "E", "C", "T", " ", "I", "D", "E", "N", "T", "I", "F", "I", "E", "R", " ", ":", ":", "=", " ", "{", " ", "i", "s", "o", " ", "}">>,
             <<"b">>, <<"O", "B", "J", "E", "C", "T", " ", "I", "D", "E", "N", "T", "I", "F", "I", "E", "R">>, <<"i", "s", "o">>, "arc"),
    TextDecl(<<"b", " ", "O", "B", "J", "E", "C", "T", " ", "I", "D", "E", "N", "T", "I", "F", "I", "E", "R", " ", ":", ":", "=", " ", "{", " ", "n", "o", "w", "h", "e", "r", "e", " ", "1", " ", "}">>,
             <<"b">>, <<"O", "B", "J", "E", "C", "T", " ", "I", "D", "E", "N", "T", "I", "F", "I", "E", "R">>, <<"n", "o", "w", "h", "e", "r", "e", " ", "1">>, "parent"),
    TextDecl(<<"b", " ", "O", "B", "J", "E", "C", "T", "-", "T", "Y", "P", "E", " ", ":", ":", "=", " ", "{", " ", "i", "s", "o", " ", "1", " ", "}">>,
             <<"b">>, <<"O", "B", "J", "E", "C", "T", "-", "T", "Y", "P", "E">>, <<"i", "s", "o", " ", "1">>, "field"),
    TextDecl(<<"b", " ", "O", "B", "J", "E", "C", "T", "-", "T", "Y", "P", "E", " ", "S", "Y", "N", "T", "A", "X", " ", "I", "n", "t", "e", "g", "e", "r", "3", "2", " ", ":", ":", "=", " ", "5">>,
             <<"b">>, <<"O", "B", "J", "E", "C", "T", "-", "T", "Y", "P", "E">>, <<>>, "nobrace"),
    TextDecl(<<"b", " ", "O", "B", "J", "E", "C", "T", "-", "T", "Y", "P", "E", " ", "S", "Y", "N", "T", "A", "X", " ", "I", "n", "t", "e", "g", "e", "r", "3", "2">>,
             <<"b">>, <<"O", "B", "J", "E", "C", "T", "-", "T", "Y", "P", "E">>, <<>>, "noarc"),
    TextDecl(<<"b", " ", "O", "B", "J", "E", "C", "T", " ", "I", "D", "E", "N", "T", "I", "F", "I", "E", "R", " ", ":", ":", "=", " ", "{", " ", "i", "s", "o", " ", Sup2, " ", "}">>,
             <<"b">>, <<"O", "B", "J", "E", "C", "T", " ", "I", "D", "E", "N", "T", "I", "F", "I", "E", "R">>, <<"i", "s", "o", " ", Sup2>>, "digit") }

\* the most declarations in a module text
MaxModDecls == 2

\* module texts: declarations of different names, one of them at most not good
ModuleDecls ==
  UNION { { l \in [1..n -> TextDecls] :
              /\ \A i, j \in 1..n : l[i].name = l[j].name => i = j
              /\ Cardinality({ i \in 1..n : l[i].form # "good" }) <= 1 } :
          n \in 1..MaxModDecls }

RECURSIVE ModuleBody(_, _)
ModuleBody(l, i) ==
  IF i > Len(l) THEN <<>> ELSE l[i].text \o <<"\n">> \o ModuleBody(l, i + 1)

ModuleText(l) ==
  <<"T", " ", "D", "E", "F", "I", "N", "I", "T", "I", "O", "N", "S", " ", ":", ":", "=", " ", "B", "E", "G", "I", "N", "\n">> \o ModuleBody(l, 1) \o <<"E", "N", "D", "\n">>

----------------------------------------------------------------------------
(* The enum table of a SYNTAX value (mib_browser.py)                       *)

\* [A-Za-z0-9\-_]
EnumLabelCh == Upper \cup Lower \cup Digit \cup {"-", "_"}

\* the pair of no match
NoEnum == <<>>

\* re.match(r"([A-Za-z][A-Za-z0-9\-_]*)\s*\(\s*([0-9]+)\s*\)", item), and the
\* same with a closing $ when anchored: <<group(1), group(2)>>, NoEnum when
\* there is no match.  The classes that follow one another are disjoint, so
\* each greedy run stops where the match needs it to stop.
EnumMatch(item, anchored) ==
  IF item = <<>> \/ item[1] \notin Upper \cup Lower THEN NoEnum
  ELSE LET a == Skip(item, 2, EnumLabelCh)
           b == Skip(item, a, Space)
           c == Skip(item, b + 1, Space)
           d == Skip(item, c, Digit)
           e == Skip(item, d, Space)
       IN IF /\ b <= Len(item) /\ item[b] = "("
             /\ d > c
             /\ e <= Len(item) /\ item[e] = ")"
             /\ (anchored => e = Len(item))
          THEN <<SubSeq(item, 1, a - 1), SubSeq(item, c, d - 1)>>
          ELSE NoEnum

\* ENUM_SET_RE.search(syntax): <<TRUE, group(1)>>, <<FALSE>> without a match
EnumSetBody(syntax) ==
  LET i == FindChar(syntax, 1, {"{"})
      j == IF i = 0 THEN 0 ELSE FindChar(syntax, i + 1, {"}"})
  IN IF j = 0 THEN <<FALSE>> ELSE <<TRUE, SubSeq(syntax, i + 1, j - 1)>>

\* the loop over body.split(","), from item i on
RECURSIVE EnumItems(_, _)
EnumItems(items, i) ==
  IF i > Len(items) THEN <<>>
  ELSE LET item == WsStrip(items[i])
           m1 == EnumMatch(item, TRUE)
           mm == IF m1 = NoEnum THEN EnumMatch(item, FALSE) ELSE m1
       IN (IF mm = NoEnum THEN <<>> ELSE <<mm>>) \o EnumItems(items, i + 1)

_extract_enums_from_syntax(syntax) ==
  IF syntax = <<>> THEN <<>>
  ELSE LET m == EnumSetBody(syntax)
       IN IF ~m[1] THEN <<>> ELSE EnumItems(Split(m[2], ","), 1)

\* The entries a list is written from: the text, the pair it stands for and
\* its form: "number" for label(number) with an unsigned number, "negative"
\* for label(number) with a negative one, "none" for an entry without a
\* parenthesised number or without a label
EnumEntry(t, label, number, form) ==
  [text |-> t, pair |-> <<label, number>>, form |-> form]

EnumEntries ==
  { EnumEntry(<<"u", "p", "(", "1", ")">>, <<"u", "p">>, <<"1">>, "number"),
    EnumEntry(<<"d", "o", "w", "n", "(", "2", ")">>, <<"d", "o", "w", "n">>, <<"2">>, "number"),
    EnumEntry(<<"x", " ", "(", " ", "1", "0", " ", ")">>, <<"x">>, <<"1", "0">>, "number"),
    EnumEntry(<<"a", "-", "b", "_", "c", "(", "0", "0", "7", ")">>, <<"a", "-", "b", "_", "c">>, <<"0", "0", "7">>, "number"),
    EnumEntry(<<"b", "a", "d">>, <<"b", "a", "d">>, <<>>, "none"),
    EnumEntry(<<"7", "u", "p", "(", "3", ")">>, <<"7", "u", "p">>, <<"3">>, "none"),
    EnumEntry(<<"n", "e", "g", "(", "-", "1", ")">>, <<"n", "e", "g">>, <<"-", "1">>, "negative") }

\* the most entries in a list
MaxEnums == 2

EnumLists == UNION { [1..n -> EnumEntries] : n \in 1..MaxEnums }

\* how a list is written: what stands before it, between two entries and
\* after it
EnumStyles ==
  { [head |-> <<"I", "N", "T", "E", "G", "E", "R", " ", "{", " ">>, sep |-> <<",", " ">>, tail |-> <<" ", "}">>],
    [head |-> <<"B", "I", "T", "S", " ", "{">>, sep |-> <<",">>, tail |-> <<"}">>],
    [head |-> <<"I", "N", "T", "E", "G", "E", "R", " ", "{", "\n", " ", " ">>, sep |-> <<" ", ",", "\n", " ", " ">>, tail |-> <<"\n", "}">>] }

RECURSIVE EnumListText(_, _, _)
EnumListText(l, sep, i) ==
  IF i > Len(l) THEN <<>>
  ELSE (IF i = 1 THEN <<>> ELSE sep) \o l[i].text \o EnumListText(l, sep, i + 1)

EnumSyntax(l, st) == st.head \o EnumListText(l, st.sep, 1) \o st.tail

\* SYNTAX values without a list
PlainSyntaxes == { <<>>, <<"I", "N", "T", "E", "G", "E", "R">>, <<"B", "I", "T", "S", " ", "{", "a", "(", "0", ")">> }

\* the pairs of the entries of list l whose form is in forms, in the order of l
RECURSIVE EnumPairs(_, _, _)
EnumPairs(l, forms, i) ==
  IF i > Len(l) THEN <<>>
  ELSE (IF l[i].form \in forms THEN <<l[i].pair>> ELSE <<>>)
       \o EnumPairs(l, forms, i + 1)

NoOut ==
  [ raw |-> <<>>, src |-> <<>>, raw2 |-> <<>>, src2 |-> <<>>,
    p_name |-> <<>>, b_name |-> <<>>, p_imports |-> <<>>, b_imports |-> <<>>,
    enums |-> <<>>, parsed |-> [raised |-> FALSE, nodes |-> EmptyDict],
    p_result |-> [module_name |-> <<>>, data |-> FALSE, nodes |-> {}],
    b_result |-> [module_name |-> <<>>, data |-> FALSE, nodes |-> {}] ]

\* SmiV2Parser(text).raw and strip_comments(text)
Normalize ==
  /\ tpc = "input"
  /\ out' = [out EXCEPT !.raw = ParserNormalize(text), !.src = strip_comments(text)]
  /\ tpc' = "normalized"
  /\ UNCHANGED <<text, truth>>
  /\ UNCHANGED nonTextVars

\* the normalised text is normalised again
NormalizeAgain ==
  /\ tpc = "normalized"
  /\ out' = [out EXCEPT !.raw2 = ParserNormalize(out.raw),
                        !.src2 = strip_comments(out.src)]
  /\ tpc' = "renormalized"
  /\ UNCHANGED <<text, truth>>
  /\ UNCHANGED nonTextVars

ParseIdle ==
  /\ impl = "none"
  /\ pc = "idle"
  /\ nodes = EmptyDict
  /\ order = <<>>
  /\ oid_map = EmptyDict
  /\ sym2oid = EmptyDict
  /\ idx = 0
  /\ passes = 0
  /\ resolved_in_pass = FALSE
  /\ doc = <<>>
  /\ first = [set |-> FALSE, oids |-> EmptyDict]

\* the module name is looked for, and the text is parsed
ScanHeader ==
  /\ tpc = "normalized" /\ truth.kind = "header"
  /\ out' = [out EXCEPT !.p_name = _get_module_name(out.raw),
                        !.b_name = find_module_name(out.src),
                        !.p_result = ParserParse(text, decls),
                        !.b_result = BrowserParse(text, decls)]
  /\ tpc' = "scanned"
  /\ UNCHANGED <<text, truth>>
  /\ UNCHANGED nonTextVars

\* the IMPORTS clause is read
ScanImports ==
  /\ tpc = "normalized" /\ truth.kind = "imports"
  /\ out' = [out EXCEPT !.p_imports = _get_imports(out.raw),
                        !.b_imports = parse_imports_block(out.src)]
  /\ tpc' = "imported"
  /\ UNCHANGED <<text, truth>>
  /\ UNCHANGED nonTextVars

\* add_node: enums = _extract_enums_from_syntax(syntax)
ScanEnums ==
  /\ tpc = "input" /\ truth.kind = "enums"
  /\ out' = [out EXCEPT !.enums = _extract_enums_from_syntax(text)]
  /\ tpc' = "enums"
  /\ UNCHANGED <<text, truth>>
  /\ UNCHANGED nonTextVars

\* SmiV2Parser(text).parse() of a whole module text
ParseModule ==
  /\ tpc = "input" /\ truth.kind = "module"
  /\ out' = [out EXCEPT !.parsed = ParseText(text)]
  /\ tpc' = "parsed"
  /\ UNCHANGED <<text, truth>>
  /\ UNCHANGED nonTextVars

TextInit ==
  /\ ConcIdle
  /\ ParseIdle
  /\ RegIdle
  /\ SearchIdle
  /\ FlatIdle
  /\ tpc = "input"
  /\ out = NoOut
  /\ \/ /\ text \in FreeTexts
        /\ decls = <<>>
        /\ truth = [kind |-> "free", name |-> None, imports |-> EmptyDict, enums |-> <<>>]
     \/ \E h \in HeaderInputs :
          /\ text = h[1]
          /\ decls \in HeaderDecls
          /\ truth = [kind |-> "header", name |-> h[2], imports |-> EmptyDict, enums |-> <<>>]
     \/ \E h \in ImportInputs :
          /\ text = h[1]
          /\ decls = <<>>
          /\ truth = [kind |-> "imports", name |-> None, imports |-> h[2], enums |-> <<>>]
     \/ \E l \in EnumLists, st \in EnumStyles :
          /\ text = EnumSyntax(l, st)
          /\ decls = <<>>
          /\ truth = [kind |-> "enums", name |-> None, imports |-> EmptyDict, enums |-> l]
     \/ \E l \in ModuleDecls :
          /\ text = ModuleText(l)
          /\ decls = <<>>
          /\ truth = [kind |-> "module", name |-> <<"T">>, imports |-> EmptyDict,
                      enums |-> <<>>, mdecls |-> l]
     \/ /\ text \in PlainSyntaxes
        /\ decls = <<>>
        /\ truth = [kind |-> "enums", name |-> None, imports |-> EmptyDict, enums |-> <<>>]

TextNext ==
  Normalize \/ NormalizeAgain \/ ScanHeader \/ ScanImports \/ ScanEnums \/ ParseModule

TextSpec == TextInit /\ [][TextNext]_vars

----------------------------------------------------------------------------
(* The requests to the registry of mib_browser.py, one at a time *)

\* parse_sources() with upl the files of UPLOAD_DIR
parse_sources(upl) ==
  \E ord \in Orderings(DOMAIN upl) :
    LET r == LoadFiles(auto \o UploadFiles(upl, ord), 1, EmptyDict, EmptyDict) IN
    /\ COMPILED' = r.C
    /\ MOD_TO_PATH' = r.P
    /\ MODULE_EXPORTS' = Exports(r.C)
    /\ IMPORTED_BY' = ImportedBy(r.C, Exports(r.C))
    /\ loaded' = auto \o UploadFiles(upl, ord)

\* __main__
Startup ==
  /\ r_impl = "mib_browser" /\ ~started
  /\ started' = TRUE
  /\ parse_sources(uploads)
  /\ UNCHANGED <<auto, uploads, r_impl, call>>
  /\ UNCHANGED nonRegVars

\* upload() of one file, saved under its name
Upload ==
  /\ started
  /\ \E f \in UploadNames, d \in Docs :
       /\ uploads' = DictSet(uploads, f, d)
       /\ parse_sources(uploads')
  /\ UNCHANGED <<started, auto, r_impl, call>>
  /\ UNCHANGED nonRegVars

\* remove_module(module) of a module with a path
RemoveModule ==
  /\ started
  /\ \E module \in DOMAIN MOD_TO_PATH :
       LET rel == MOD_TO_PATH[module] IN
       IF rel[1] = "Uploads"
       THEN /\ uploads' = DictDel(uploads, rel[2])
            /\ parse_sources(uploads')
       ELSE LET C == DictDel(COMPILED, module) IN
            /\ COMPILED' = C
            /\ MOD_TO_PATH' = DictDel(MOD_TO_PATH, module)
            /\ MODULE_EXPORTS' = RemoveExports(C)
            /\ IMPORTED_BY' = RemoveImportedBy(C, RemoveExports(C))
            /\ loaded' = SelectSeq(loaded, LAMBDA f : f.doc.moduleName # module)
            /\ UNCHANGED uploads
  /\ UNCHANGED <<started, auto, r_impl, call>>
  /\ UNCHANGED nonRegVars

\* clear_all()
ClearAll ==
  /\ started
  /\ uploads' = EmptyDict
  /\ parse_sources(uploads')
  /\ UNCHANGED <<started, auto, r_impl, call>>
  /\ UNCHANGED nonRegVars

\* the most calls of add_mib_content that store a module
MaxLoads == 3

\* what SmiV2Parser.parse() can return to add_mib_content: a module name
\* and its data, or no module name (written "")
AppResults == Docs \cup { Doc("", {}, EmptyDict) }

\* no call of add_mib_content was the last request
NoCall == [made |-> FALSE, raised |-> FALSE, d |-> Doc("", {}, EmptyDict),
           before |-> EmptyDict]

\* the test of add_mib_content, as if a module with an empty forest were
\* stored too
StoresAnyNamed(raised, d) == ~raised /\ d.moduleName # ""

\* lines 39-48 of add_mib_content: whether the module is stored, when
\* parse() raises or returns d
Stores(raised, d) == ~raised /\ d.moduleName # "" /\ d.nodes # {}

\* app.py add_mib_content(content, source), parse() raising or giving d
AddMibContent ==
  /\ r_impl = "app" /\ Len(loaded) < MaxLoads
  /\ \E d \in AppResults, raised \in BOOLEAN :
       /\ call' = [made |-> TRUE, raised |-> raised, d |-> d, before |-> COMPILED]
       /\ IF Stores(raised, d)
          THEN /\ COMPILED' = DictSet(COMPILED, d.moduleName, d)
               /\ loaded' = Append(loaded, [rel |-> <<"Uploads">>, doc |-> d])
          ELSE UNCHANGED <<COMPILED, loaded>>
  /\ UNCHANGED <<started, auto, uploads, MOD_TO_PATH, MODULE_EXPORTS,
                 IMPORTED_BY, r_impl>>
  /\ UNCHANGED nonRegVars

\* app.py clear_all()
AppClearAll ==
  /\ r_impl = "app"
  /\ COMPILED' = EmptyDict
  /\ loaded' = <<>>
  /\ call' = NoCall
  /\ UNCHANGED <<started, auto, uploads, MOD_TO_PATH, MODULE_EXPORTS,
                 IMPORTED_BY, r_impl>>
  /\ UNCHANGED nonRegVars

RegistryInit ==
  /\ ConcIdle
  /\ ParseIdle
  /\ decls = <<>>
  /\ TextIdle
  /\ SearchIdle
  /\ FlatIdle
  /\ started = FALSE
  /\ r_impl \in {"mib_browser", "app"}
  /\ auto \in (IF r_impl = "app" THEN {<<>>} ELSE AutoFiles)
  /\ uploads = EmptyDict
  /\ COMPILED = EmptyDict
  /\ MOD_TO_PATH = EmptyDict
  /\ MODULE_EXPORTS = EmptyDict
  /\ IMPORTED_BY = EmptyDict
  /\ loaded = <<>>
  /\ call = NoCall

RegistryNext ==
  Startup \/ Upload \/ RemoveModule \/ ClearAll \/ AddMibContent \/ AppClearAll

RegistrySpec == RegistryInit /\ [][RegistryNext]_vars

----------------------------------------------------------------------------
(* Flat lists and search: flatten_nodes and search_all of mib_browser.py,  *)
(* flatten_nodes and search_all of search.py                                *)

\* the cap on the hits
SearchCap == 200

\* 10**9, the sort key of a segment that is no integer
BigKey == 1000000000

\* str.lower() on one character
LowerOf(c) ==
  CASE c = "A" -> "a" [] c = "B" -> "b" [] c = "C" -> "c" [] c = "D" -> "d" [] c = "E" -> "e" [] c = "F" -> "f" [] c = "G" -> "g" [] c = "H" -> "h" [] c = "I" -> "i" [] c = "J" -> "j" [] c = "K" -> "k" [] c = "L" -> "l" [] c = "M" -> "m" 
    [] c = "N" -> "n" [] c = "O" -> "o" [] c = "P" -> "p" [] c = "Q" -> "q" [] c = "R" -> "r" [] c = "S" -> "s" [] c = "T" -> "t" [] c = "U" -> "u" [] c = "V" -> "v" [] c = "W" -> "w" [] c = "X" -> "x" [] c = "Y" -> "y" [] c = "Z" -> "z"
    [] OTHER -> c

\* s.lower()
ToLower(t) == [i \in 1..Len(t) |-> LowerOf(t[i])]

\* part in t
In(part, t) == \E i \in 1..(Len(t) + 1) : StartsWith(t, i, part)

\* str(v)
Str(v) == IF v = None THEN <<"N", "o", "n", "e">> ELSE v

\* v or ""
OrEmpty(v) == IF v = None THEN <<>> ELSE v

\* the characters of the model in the order of their code points
CodePoints == 
  <<" ", "(", ")", ",", "-", ".", "0", "1", "2", "3", "4", "5", "6", "7", "8", "9", ":", ";", "=", "A", "B", "C", "D", "E", "F", "G", "H", "I", "J", "K", "L", "M", "N", "O", "P", "Q", "R", "S", "T", "U", "V", "W", "X", "Y", "Z", "_", "a", "b", "c", "d", "e", "f", "g", "h", "i", "j", "k", "l", "m", "n", "o", "p", "q", "r", "s", "t", "u", "v", "w", "x", "y", "z", "{", "}">>

Ord(c) == CHOOSE i \in DOMAIN CodePoints : CodePoints[i] = c

\* a < b for two str
RECURSIVE StrLess(_, _)
StrLess(a, b) ==
  IF b = <<>> THEN FALSE
  ELSE IF a = <<>> THEN TRUE
  ELSE IF Head(a) # Head(b) THEN Ord(Head(a)) < Ord(Head(b))
  ELSE StrLess(Tail(a), Tail(b))

\* a < b for two lists of int
RECURSIVE ListLess(_, _)
ListLess(a, b) ==
  IF b = <<>> THEN FALSE
  ELSE IF a = <<>> THEN TRUE
  ELSE IF Head(a) # Head(b) THEN Head(a) < Head(b)
  ELSE ListLess(Tail(a), Tail(b))

\* int(p) of a text of decimal digits
RECURSIVE IntVal(_)
IntVal(p) ==
  IF p = <<>> THEN 0 ELSE 10 * IntVal(SubSeq(p, 1, Len(p) - 1)) + NumVal[p[Len(p)]]

\* str(n) for n >= 0
RECURSIVE IntText(_)
IntText(n) ==
  IF n < 10 THEN <<IntStr(n)>> ELSE IntText(n \div 10) \o <<IntStr(n % 10)>>

\* try: int(p) except: 10**9, for p a text without sign, blank or underscore
IntOrBig(p) ==
  IF p # <<>> /\ \A i \in DOMAIN p : p[i] \in Digit THEN IntVal(p) ELSE BigKey

\* _oid_key(n) of flatten_nodes
_oid_key(oid) ==
  IF OrEmpty(oid) = <<>> THEN <<BigKey>>
  ELSE LET ps == Split(oid, ".") IN [i \in DOMAIN ps |-> IntOrBig(ps[i])]

\* (_oid_key(a), a["name"]) < (_oid_key(b), b["name"])
FlatLess(a, b) ==
  \/ ListLess(_oid_key(a.oid), _oid_key(b.oid))
  \/ /\ _oid_key(a.oid) = _oid_key(b.oid)
     /\ StrLess(a.name, b.name)

\* out.sort(key=...), a stable sort: seq[i..] put one by one into the sorted
\* list acc, each after the elements that are not greater
RECURSIVE FlatSort(_, _, _)
FlatSort(seq, i, acc) ==
  IF i > Len(seq) THEN acc
  ELSE LET k == Cardinality({ j \in DOMAIN acc : ~FlatLess(seq[i], acc[j]) })
       IN FlatSort(seq, i + 1,
                   SubSeq(acc, 1, k) \o <<seq[i]>> \o SubSeq(acc, k + 1, Len(acc)))

\* flatten_nodes(mod_name, doc) of mib_browser.py; ns is doc["nodes"].values()
\* in dict order
flatten_nodes(mod_name, ns) ==
  FlatSort([i \in DOMAIN ns |->
                [ module |-> mod_name, name |-> ns[i].name, oid |-> ns[i].oid,
                  sym_oid |-> OrEmpty(ns[i].sym_oid), klass |-> ns[i].klass,
                  syntax |-> OrEmpty(ns[i].syntax),
                  description |-> WsStrip(OrEmpty(ns[i].description)) ]],
           1, <<>>)

\* flatten_nodes(module, nodes) of search.py: the nodes of a forest, each
\* before its children
RECURSIVE PyFlatten(_)
PyFlatten(forest) ==
  IF forest = <<>> THEN <<>>
  ELSE <<[Head(forest) EXCEPT !.children = <<>>]>>
         \o PyFlatten(Head(forest).children) \o PyFlatten(Tail(forest))

\* " ".join(fields)
RECURSIVE JoinFields(_)
JoinFields(fs) ==
  IF Len(fs) = 1 THEN fs[1] ELSE fs[1] \o <<" ">> \o JoinFields(Tail(fs))

\* hay of search_all of mib_browser.py
BrowserHay(n) ==
  ToLower(JoinFields(<<n.module, n.name, Str(OrEmpty(n.oid)), OrEmpty(n.sym_oid),
                       OrEmpty(n.klass), OrEmpty(n.syntax), OrEmpty(n.description)>>))

\* haystack of search_all of search.py
PyHaystack(n) ==
  ToLower(JoinFields(<<Str(n.module), Str(n.name), Str(n.oid), Str(n.sym_oid),
                       Str(n.klass), Str(n.syntax), Str(n.description)>>))

\* term = (term or "").strip().lower()
NormTerm(t) == ToLower(WsStrip(t))

----------------------------------------------------------------------------
(* The registries that are searched, as the two programs hold them *)

\* a node: of doc["nodes"] of parse_mib_text, or of the doc of SmiV2Parser
SNode(name, oid, sym_oid, klass, syntax, description, children) ==
  [ name |-> name, oid |-> oid, sym_oid |-> sym_oid, klass |-> klass,
    syntax |-> syntax, description |-> description, children |-> children ]

\* the i-th of the nodes q1, q2, ... declared as qi OBJECT-TYPE ... ::= { iso i }
BulkNode(i, prog) ==
  SNode(<<"q">> \o IntText(i), <<"1", ".">> \o IntText(i),
        IF prog = "mib_browser" THEN <<"I", "S", "O", ".">> \o IntText(i)
        ELSE <<"{", "I", "S", "O", " ">> \o IntText(i) \o <<"}">>,
        <<"O", "B", "J", "E", "C", "T", "-", "T", "Y", "P", "E">>, <<"I", "N", "T", "E", "G", "E", "R">>, <<"x">>, <<>>)

Bulk(n, prog) == [i \in 1..n |-> BulkNode(i, prog)]

\* IF-MIB: org OBJECT IDENTIFIER ::= { iso 3 } and
\* sysDescr OBJECT-TYPE SYNTAX DisplayString ... ::= { org 1 }
IfMibBrowser ==
  << SNode(<<"s", "y", "s", "D", "e", "s", "c", "r">>, <<"1", ".", "3", ".", "1">>, <<"o", "r", "g", ".", "1">>, <<"O", "B", "J", "E", "C", "T", "-", "T", "Y", "P", "E">>, <<"D", "i", "s", "p", "l", "a", "y", "S", "t", "r", "i", "n", "g">>,
           <<"A", " ", "t", "e", "x", "t", "u", "a", "l", " ", "d", "e", "s", "c", "r", "i", "p", "t", "i", "o", "n">>, <<>>),
     SNode(<<"o", "r", "g">>, <<"1", ".", "3">>, <<>>, <<"O", "B", "J", "E", "C", "T", " ", "I", "D", "E", "N", "T", "I", "F", "I", "E", "R">>, <<>>, <<>>, <<>>) >>

IfMibParser ==
  << SNode(<<"o", "r", "g">>, <<"1", ".", "3">>, <<"{", "i", "s", "o", " ", "3", "}">>, <<"O", "B", "J", "E", "C", "T", "-", "I", "D", "E", "N", "T", "I", "F", "I", "E", "R">>, None, None,
       << SNode(<<"s", "y", "s", "D", "e", "s", "c", "r">>, <<"1", ".", "3", ".", "1">>, <<"{", "o", "r", "g", " ", "1", "}">>, <<"O", "B", "J", "E", "C", "T", "-", "T", "Y", "P", "E">>, <<"D", "i", "s", "p", "l", "a", "y", "S", "t", "r", "i", "n", "g">>,
                <<"A", " ", "t", "e", "x", "t", "u", "a", "l", " ", "d", "e", "s", "c", "r", "i", "p", "t", "i", "o", "n">>, <<>>) >>) >>

\* T1: qt OBJECT-TYPE ... ::= { iso 1 }
TinyOne(prog) ==
  << SNode(<<"q", "t">>, <<"1", ".", "1">>, IF prog = "mib_browser" THEN <<"i", "s", "o", ".", "1">> ELSE <<"{", "i", "s", "o", " ", "1", "}">>,
           <<"O", "B", "J", "E", "C", "T", "-", "T", "Y", "P", "E">>, <<"I", "N", "T", "E", "G", "E", "R">>, <<"x">>, <<>>) >>

\* T2: zz ::= { iso 1 } and qz ::= { iso 2 }
TinyTwo(prog) ==
  << SNode(<<"z", "z">>, <<"1", ".", "1">>, IF prog = "mib_browser" THEN <<"i", "s", "o", ".", "1">> ELSE <<"{", "i", "s", "o", " ", "1", "}">>,
           <<"O", "B", "J", "E", "C", "T", "-", "T", "Y", "P", "E">>, <<"I", "N", "T", "E", "G", "E", "R">>, <<"x">>, <<>>),
     SNode(<<"q", "z">>, <<"1", ".", "2">>, IF prog = "mib_browser" THEN <<"i", "s", "o", ".", "2">> ELSE <<"{", "i", "s", "o", " ", "2", "}">>,
           <<"O", "B", "J", "E", "C", "T", "-", "T", "Y", "P", "E">>, <<"I", "N", "T", "E", "G", "E", "R">>, <<"x">>, <<>>) >>

CapModules == { <<"B", "1", "9", "9">>, <<"B", "2", "0", "0">>, <<"T", "1">>, <<"T", "2">> }

SmallModules == { <<"I", "F", "-", "M", "I", "B">>, <<"T", "2">> }

\* what the registry holds for module m: doc["nodes"].values() for
\* mib_browser.py, the forest doc for app.py
SearchDoc(m, prog) ==
  CASE m = <<"B", "1", "9", "9">> -> Bulk(SearchCap - 1, prog)
    [] m = <<"B", "2", "0", "0">> -> Bulk(SearchCap, prog)
    [] m = <<"T", "1">> -> TinyOne(prog)
    [] m = <<"T", "2">> -> TinyTwo(prog)
    [] m = <<"I", "F", "-", "M", "I", "B">> -> IF prog = "mib_browser" THEN IfMibBrowser ELSE IfMibParser

\* a node of a flat list
FlatNode(m, n) ==
  [ module |-> m, name |-> n.name, oid |-> n.oid, sym_oid |-> n.sym_oid,
    klass |-> n.klass, syntax |-> n.syntax, description |-> n.description ]

\* the flat list of each module for mib_browser.py.  The nodes of B199 and
\* B200 are declared in the order of their oids 1.1, 1.2, ..., the order
\* flatten_nodes gives them, and have every field.
BrowserFlat ==
  [m \in CapModules \cup SmallModules |->
     LET ns == SearchDoc(m, "mib_browser") IN
     IF Len(ns) >= SearchCap - 1 THEN [i \in DOMAIN ns |-> FlatNode(m, ns[i])]
     ELSE flatten_nodes(m, ns)]

\* the flat list of each module for search.py.  B199 and B200 are forests
\* of roots without children.
PyFlat ==
  [m \in CapModules \cup SmallModules |->
     LET ns == SearchDoc(m, "search")
         f  == IF Len(ns) >= SearchCap - 1 THEN ns ELSE PyFlatten(ns)
     IN [i \in DOMAIN f |-> FlatNode(m, f[i])]]

FlatOf(prog, m) == IF prog = "mib_browser" THEN BrowserFlat[m] ELSE PyFlat[m]

\* all_nodes of search.py, as <<module, position>>
RECURSIVE AllNodes(_, _)
AllNodes(mods, i) ==
  IF i > Len(mods) THEN <<>>
  ELSE [k \in 1..Len(PyFlat[mods[i]]) |-> <<mods[i], k>>] \o AllNodes(mods, i + 1)

\* the number of modules of a registry that is searched
MaxMods == 3

CapTerm == <<"q">>

SmallTerms ==
  { <<"d", "e", "s", "c", "r">>, <<" ", "D", "E", "S", "C", "R", " ">>, <<"i", "f", "-", "m", "i", "b">>, <<"r", " ", "1", ".", "3">>, <<"z", "z", "z">>, <<"n", "o", "n", "e">>, <<>>, <<" ", " ">>, <<"1", ".", "3">> }

\* the registries: up to MaxMods modules, in any dict order
Registries(ms) ==
  UNION { { r \in [1..n -> ms] : IsInjective(r) } : n \in 0..MaxMods }

----------------------------------------------------------------------------
(* search_all, one step per node that is tested *)

\* term = (term or "").strip().lower(); if not term: return []
SearchStart ==
  /\ s_pc = "start"
  /\ IF NormTerm(term) = <<>> THEN s_pc' = "done" ELSE s_pc' = "loop"
  /\ s_mi' = 1 /\ s_ni' = 1
  /\ UNCHANGED <<s_impl, s_mods, term, hits, late>>
  /\ UNCHANGED nonSearchVars

\* mib_browser.py: one iteration of the inner loop; break leaves the inner
\* loop only
BrowserExamine ==
  /\ s_impl = "mib_browser" /\ s_pc = "loop"
  /\ s_mi <= Len(s_mods)
  /\ s_ni <= Len(BrowserFlat[s_mods[s_mi]])
  /\ LET n == BrowserFlat[s_mods[s_mi]][s_ni]
         h == IF In(NormTerm(term), BrowserHay(n))
              THEN Append(hits, <<s_mods[s_mi], s_ni>>) ELSE hits
     IN /\ hits' = h
        /\ IF Len(h) >= SearchCap
           THEN s_mi' = s_mi + 1 /\ s_ni' = 1
           ELSE s_mi' = s_mi /\ s_ni' = s_ni + 1
  /\ late' = IF Len(hits) >= SearchCap THEN late + 1 ELSE late
  /\ UNCHANGED <<s_impl, s_mods, term, s_pc>>
  /\ UNCHANGED nonSearchVars

\* mib_browser.py: the inner loop has run through the flat list of a module
BrowserNextModule ==
  /\ s_impl = "mib_browser" /\ s_pc = "loop"
  /\ s_mi <= Len(s_mods)
  /\ s_ni > Len(BrowserFlat[s_mods[s_mi]])
  /\ s_mi' = s_mi + 1 /\ s_ni' = 1
  /\ UNCHANGED <<s_impl, s_mods, term, s_pc, hits, late>>
  /\ UNCHANGED nonSearchVars

\* search.py: one iteration of the loop over all_nodes; break ends it
PyExamine ==
  /\ s_impl = "search" /\ s_pc = "loop"
  /\ s_ni <= Len(AllNodes(s_mods, 1))
  /\ LET ref == AllNodes(s_mods, 1)[s_ni]
         n   == PyFlat[ref[1]][ref[2]]
         h   == IF In(NormTerm(term), PyHaystack(n)) THEN Append(hits, ref) ELSE hits
     IN /\ hits' = h
        /\ IF Len(h) >= SearchCap THEN s_pc' = "done" /\ s_ni' = s_ni
           ELSE s_pc' = s_pc /\ s_ni' = s_ni + 1
  /\ late' = IF Len(hits) >= SearchCap THEN late + 1 ELSE late
  /\ UNCHANGED <<s_impl, s_mods, term, s_mi>>
  /\ UNCHANGED nonSearchVars

\* return hits, after the last module or node
SearchReturn ==
  /\ s_pc = "loop"
  /\ \/ s_impl = "mib_browser" /\ s_mi > Len(s_mods)
     \/ s_impl = "search" /\ s_ni > Len(AllNodes(s_mods, 1))
  /\ s_pc' = "done"
  /\ UNCHANGED <<s_impl, s_mods, term, s_mi, s_ni, hits, late>>
  /\ UNCHANGED nonSearchVars

SearchInit ==
  /\ ConcIdle
  /\ ParseIdle
  /\ decls = <<>>
  /\ TextIdle
  /\ RegIdle
  /\ FlatIdle
  /\ s_impl \in {"search", "mib_browser"}
  /\ \/ s_mods \in Registries(SmallModules) /\ term \in SmallTerms
     \/ s_mods \in Registries(CapModules) /\ term = CapTerm
  /\ s_pc = "start"
  /\ s_mi = 0
  /\ s_ni = 0
  /\ hits = <<>>
  /\ late = 0

SearchNext ==
  SearchStart \/ BrowserExamine \/ BrowserNextModule \/ PyExamine \/ SearchReturn

SearchSpec == SearchInit /\ [][SearchNext]_vars

----------------------------------------------------------------------------
(* The flat list of one module: flatten_nodes of mib_browser.py, and       *)
(* flatten_nodes of search.py on the forest of _pass3_build_tree            *)

\* [int(i) for i in x.split('.')] of an oid _pass2_resolve_oids has made
IntKey(oid) == LET ps == Split(oid, ".") IN [i \in DOMAIN ps |-> IntVal(ps[i])]

\* the keys of nodes_by_oid in the order of the dict: an oid stands where it
\* was first put
RECURSIVE OidKeys(_, _, _)
OidKeys(ns, i, acc) ==
  IF i > Len(ns) THEN acc
  ELSE OidKeys(ns, i + 1, IF ns[i].oid \in Range(acc) THEN acc ELSE Append(acc, ns[i].oid))

\* nodes_by_oid[oid]: the last node put under oid
NodeAt(ns, oid) ==
  ns[CHOOSE i \in DOMAIN ns : /\ ns[i].oid = oid
                              /\ \A j \in DOMAIN ns : ns[j].oid = oid => j <= i]

\* sorted(nodes_by_oid.keys(), key=...), a stable sort
RECURSIVE KeySort(_, _, _)
KeySort(seq, i, acc) ==
  IF i > Len(seq) THEN acc
  ELSE LET k == Cardinality({ j \in DOMAIN acc : ~ListLess(IntKey(seq[i]), IntKey(acc[j])) })
       IN KeySort(seq, i + 1,
                  SubSeq(acc, 1, k) \o <<seq[i]>> \o SubSeq(acc, k + 1, Len(acc)))

\* ".".join(oid_parts[:-1]), for an oid of more than one part
ParentText(oid) ==
  LET ps == Split(oid, ".") IN
  SubSeq(oid, 1, Len(oid) - Len(ps[Len(ps)]) - 1)

\* whether the loop of _pass3_build_tree appends the node of oid to the
\* children of a node
HasParentNode(oid, keys) ==
  Len(Split(oid, ".")) > 1 /\ ParentText(oid) \in Range(keys)

\* the flat list of search.py for the forest of _pass3_build_tree: the
\* nodes of the oids os of the sorted keys, each before its children
RECURSIVE PreOrder(_, _, _)
PreOrder(os, sorted, ns) ==
  IF os = <<>> THEN <<>>
  ELSE LET kids == SelectSeq(sorted, LAMBDA o : /\ HasParentNode(o, sorted)
                                                /\ ParentText(o) = Head(os))
       IN <<NodeAt(ns, Head(os))>> \o PreOrder(kids, sorted, ns)
            \o PreOrder(Tail(os), sorted, ns)

\* flatten_nodes(module, doc) of search.py with doc = _pass3_build_tree()
PyFlatList(ns) ==
  LET sorted == KeySort(OidKeys(ns, 1, <<>>), 1, <<>>)
      roots  == SelectSeq(sorted, LAMBDA o : ~HasParentNode(o, sorted))
  IN PreOrder(roots, sorted, ns)

\* the names and oids of the flat list of mib_browser.py for the nodes ns
BrowserFlatList(ns) ==
  LET f == flatten_nodes(<<"M">>,
             [i \in DOMAIN ns |->
                SNode(ns[i].name, ns[i].oid, <<>>, <<"O", "B", "J", "E", "C", "T", " ", "I", "D", "E", "N", "T", "I", "F", "I", "E", "R">>, <<>>, <<>>, <<>>)])
  IN [i \in DOMAIN f |-> [name |-> f[i].name, oid |-> f[i].oid]]

FlatList(prog, ns) ==
  IF prog = "mib_browser" THEN BrowserFlatList(ns) ELSE PyFlatList(ns)

\* the names of the nodes of a module
FlatNames == { <<"a">>, <<"b">>, <<"B">> }

\* oids parse_mib_text gives: of { iso 3 }, { iso 10 }, { iso 3 foo },
\* { foo 1 } and { }
BrowserOids == { <<"1", ".", "3">>, <<"1", ".", "1", "0">>, <<"1", ".", "3", ".", "f", "o", "o">>, <<"f", "o", "o", ".", "1">>, <<>> }

\* oids _pass2_resolve_oids gives: of { iso 3 }, { iso 03 }, { iso 10 } and of
\* { x 1 } under { iso 3 }
ParserOids == { <<"1", ".", "3">>, <<"1", ".", "0", "3">>, <<"1", ".", "1", "0">>, <<"1", ".", "3", ".", "1">> }

\* the number of nodes of a module
MaxFlat == 3

\* the modules: nodes of different names; for parser.py also of different oids
FlatInputs(prog) ==
  LET os == IF prog = "mib_browser" THEN BrowserOids ELSE ParserOids IN
  UNION { { ns \in [1..n -> [name : FlatNames, oid : os]] :
              /\ \A i, j \in 1..n : ns[i].name = ns[j].name => i = j
              /\ prog = "search" => \A i, j \in 1..n : ns[i].oid = ns[j].oid => i = j } :
          n \in 1..MaxFlat }

\* the flat list is made
Flatten ==
  /\ f_pc = "input"
  /\ flat' = [flat EXCEPT !.one = FlatList(f_impl, f_nodes)]
  /\ f_pc' = "flat"
  /\ UNCHANGED <<f_impl, f_nodes>>
  /\ UNCHANGED nonFlatVars

\* the flat list is made of the same nodes in another order of the dict
FlattenPermuted ==
  /\ f_pc = "flat"
  /\ \E o \in Orderings(DOMAIN f_nodes) :
       flat' = [flat EXCEPT !.perm = FlatList(f_impl, [i \in DOMAIN f_nodes |-> f_nodes[o[i]]])]
  /\ f_pc' = "permuted"
  /\ UNCHANGED <<f_impl, f_nodes>>
  /\ UNCHANGED nonFlatVars

\* the flat list of mib_browser.py is sorted again
SortAgain ==
  /\ f_pc = "flat" /\ f_impl = "mib_browser"
  /\ flat' = [flat EXCEPT !.again = FlatSort(flat.one, 1, <<>>)]
  /\ f_pc' = "resorted"
  /\ UNCHANGED <<f_impl, f_nodes>>
  /\ UNCHANGED nonFlatVars

FlatInit ==
  /\ ConcIdle
  /\ ParseIdle
  /\ decls = <<>>
  /\ TextIdle
  /\ RegIdle
  /\ SearchIdle
  /\ f_impl \in {"search", "mib_browser"}
  /\ f_nodes \in FlatInputs(f_impl)
  /\ f_pc = "input"
  /\ flat = [one |-> <<>>, perm |-> <<>>, again |-> <<>>, tree |-> <<>>]

\* the segments of an oid: [p for p in oid.split(".") if p]
Parts(oid) == SelectSeq(Split(oid, "."), LAMBDA x : x # <<>>)

\* build_tree(nodes): for every path that is the oid of a node, the name of
\* the node left in "__node__" at the last segment of the path, which is the
\* one of the last node of the list with that path
build_tree(ns) ==
  LET withOid == { i \in DOMAIN ns : WsStrip(OrEmpty(ns[i].oid)) # <<>>
                                      /\ Parts(WsStrip(ns[i].oid)) # <<>> }
      paths   == { Parts(WsStrip(ns[i].oid)) : i \in withOid }
  IN [ p \in paths |->
         ns[CHOOSE i \in withOid :
              /\ Parts(WsStrip(ns[i].oid)) = p
              /\ \A j \in withOid : Parts(WsStrip(ns[j].oid)) = p => j <= i].name ]

\* module_view(): tree = build_tree(flatten_nodes(module, doc))
BuildTree ==
  /\ f_pc = "flat" /\ f_impl = "mib_browser"
  /\ flat' = [flat EXCEPT !.tree = build_tree(flat.one)]
  /\ f_pc' = "tree"
  /\ UNCHANGED <<f_impl, f_nodes>>
  /\ UNCHANGED nonFlatVars

FlatNext == Flatten \/ FlattenPermuted \/ SortAgain \/ BuildTree

FlatSpec == FlatInit /\ [][FlatNext]_vars

----------------------------------------------------------------------------
(* Claims *)

ExampleDecls ==
  << Decl("internet", "OBJECT IDENTIFIER", <<Id("iso"), Num("3"), Num("6"), Num("1")>>),
     Decl("mib-2",    "OBJECT IDENTIFIER", <<Id("internet"), Num("2"), Num("1")>>),
     Decl("sysDescr", "OBJECT-TYPE",       <<Id("mib-2"), Num("1"), Num("1")>> ) >>

ExampleParsed == pc = "done" /\ decls = ExampleDecls

C2_OrderIndependent ==
  (pc = "done" /\ first.set) => OidsOf(nodes) = first.oids

\* C2 for each parser alone
C2_OrderIndependentParser == impl = "parser" => C2_OrderIndependent

C2_OrderIndependentBrowser == impl = "mib_browser" => C2_OrderIndependent

\* C3 as stated: for a module with N declarations the fixed-point loop of
\* _pass2_resolve_oids executes at most N passes, the last one included.
C3_AtMostNPasses == impl = "parser" => passes <= Len(decls)

\* C3 amended: the loop always terminates and executes at most N + 1 passes:
\* at most N passes that resolve a declaration, and the last pass, which
\* resolves none.  Termination: the pass counter and the loop index are
\* bounded and no state before the end of the parse is without a next step.
C3_AtMostNPlusOnePasses ==
  impl = "parser" =>
    /\ passes <= Cardinality(DOMAIN nodes) + 1
    /\ passes <= Len(decls) + 1
    /\ idx <= Len(order) + 1
    /\ pc # "done" => ENABLED ParserNext

\* a module of three declarations whose loop ran four passes and stopped
C3_Witness ==
  impl = "parser" /\ pc = "done" /\ Len(decls) = 3 /\ passes = 4

\* C4: an oid, once assigned to a node of self.nodes, is never changed or
\* removed by a later step of the pass, a later pass or tree assembly.
C4_OidNeverChanges ==
  [][ impl = "parser" =>
        \A n \in DOMAIN nodes :
          nodes[n].has_oid =>
            /\ n \in DOMAIN nodes'
            /\ nodes'[n].has_oid
            /\ nodes'[n].oid = nodes[n].oid ]_vars

\* a node resolved in the first of several passes, after tree assembly
C4_Witness ==
  /\ impl = "parser" /\ pc = "done" /\ passes >= 3
  /\ \E n \in DOMAIN nodes : nodes[n].has_oid /\ nodes[n].children # <<>>

\* the string literals of a text, from index i on: outside a literal "--"
\* opens a comment that runs to the end of the line, and a quote opens a
\* literal that runs to the next quote
RECURSIVE Literals(_, _)
Literals(t, i) ==
  IF i > Len(t) THEN {}
  ELSE IF StartsWith(t, i, <<"-", "-">>) THEN Literals(t, LineEnd(t, i + 2))
  ELSE IF t[i] = "\""
       THEN LET q == FindChar(t, i + 1, {"\""}) IN
            IF q = 0 THEN {} ELSE {SubSeq(t, i, q)} \cup Literals(t, q + 1)
  ELSE Literals(t, i + 1)

Contains(t, part) ==
  \E i \in 1..(Len(t) + 1) : StartsWith(t, i, part) \/ part = <<>>

\* C7: normalisation (comment stripping with the joining of continuation
\* lines) is idempotent: normalising the normalised text returns it unchanged.
C7_NormalizeIdempotent ==
  tpc = "renormalized" => out.raw2 = out.raw /\ out.src2 = out.src

\* C7 for each normaliser alone
C7_ParserIdempotent == tpc = "renormalized" => out.raw2 = out.raw

C7_BrowserIdempotent == tpc = "renormalized" => out.src2 = out.src

\* C8: every double-quoted string literal of the input appears character for
\* character in the normalised text.
C8_LiteralsKept ==
  tpc = "normalized" =>
    \A lit \in Literals(text, 1) : Contains(out.raw, lit) /\ Contains(out.src, lit)

\* C8 for each normaliser alone
C8_ParserKeepsLiterals ==
  tpc = "normalized" => \A lit \in Literals(text, 1) : Contains(out.raw, lit)

C8_BrowserKeepsLiterals ==
  tpc = "normalized" => \A lit \in Literals(text, 1) : Contains(out.src, lit)

C5_WitnessNoHeader ==
  /\ tpc = "scanned" /\ truth.kind = "header" /\ truth.name = None
  /\ decls # <<>>

C9_ImportsRecorded ==
  (tpc = "imported" /\ truth.kind = "imports") =>
    /\ out.p_imports = truth.imports
    /\ out.b_imports = truth.imports

\* a clause with two different symbols, followed by a second clause, was read
C9_Witness ==
  /\ tpc = "imported" /\ truth.kind = "imports"
  /\ SecondModule \in DOMAIN out.b_imports
  /\ \E m \in ImportModules :
       /\ m \in DOMAIN out.p_imports
       /\ Len(out.p_imports[m]) = 2
       /\ out.p_imports[m][1] # out.p_imports[m][2]
       /\ out.b_imports[m] = out.p_imports[m]

\* the symbols module x imports from module m, <<>> when it imports none
ImportedSyms(x, m) == DictGet(COMPILED[x].imports, m)

\* C10 as stated: for every loaded importer X that imports symbol s from M,
\* IMPORTED_BY[M][X] exists and contains s, whether or not M is loaded and
\* whether or not M defines s.
C10_ReverseHasSymbolAsStated ==
  started =>
    \A x \in DOMAIN COMPILED : \A m \in DOMAIN COMPILED[x].imports :
      \A i \in DOMAIN ImportedSyms(x, m) :
        /\ m \in DOMAIN IMPORTED_BY
        /\ x \in DOMAIN IMPORTED_BY[m]
        /\ ImportedSyms(x, m)[i] \in Range(IMPORTED_BY[m][x])

\* C10: for every loaded importer X that imports symbols from M, the entry
\* IMPORTED_BY[M][X] exists, whether or not M is loaded and whatever M
\* defines; it holds, in source order, the imported symbols that M defines,
\* and all of them when M is not loaded or defines no name.
C10_ReverseEdgeKept ==
  started =>
    \A x \in DOMAIN COMPILED : \A m \in DOMAIN COMPILED[x].imports :
      ImportedSyms(x, m) # <<>> =>
        /\ m \in DOMAIN IMPORTED_BY
        /\ x \in DOMAIN IMPORTED_BY[m]
        /\ IMPORTED_BY[m][x] =
             SelectSeq(ImportedSyms(x, m),
                       LAMBDA y : \/ m \notin DOMAIN COMPILED
                                  \/ COMPILED[m].nodes = {}
                                  \/ y \in COMPILED[m].nodes)

\* X imports s and t from the loaded M, which defines s and not t: the entry
\* is there, without t
C10_Witness ==
  /\ started
  /\ "X" \in DOMAIN COMPILED /\ "M" \in DOMAIN COMPILED
  /\ ImportedSyms("X", "M") = <<"s", "t">>
  /\ COMPILED["M"].nodes = {"s"}
  /\ IMPORTED_BY["M"]["X"] = <<"s">>

\* X imports from M, M is not loaded: the entry holds every symbol
C10_WitnessNotLoaded ==
  /\ started
  /\ "X" \in DOMAIN COMPILED /\ "M" \notin DOMAIN COMPILED
  /\ IMPORTED_BY["M"]["X"] = <<"s", "t">>

\* X imports only symbols M does not define: the entry is there and empty
C10_WitnessEmptyEntry ==
  /\ started
  /\ "X" \in DOMAIN COMPILED /\ "M" \in DOMAIN COMPILED
  /\ ImportedSyms("X", "M") # <<>>
  /\ IMPORTED_BY["M"]["X"] = <<>>

\* C11: search_all returns at most 200 hits in total, and tests no further
\* node of any module once the 200th hit is in the list.
C11_AtMostCap ==
  /\ Len(hits) <= SearchCap
  /\ late = 0

\* C11 for search.py alone
C11_PyAtMostCap ==
  s_impl = "search" => Len(hits) <= SearchCap /\ late = 0

\* a search of search.py that was cut at the cap, with nodes left
C11_PyWitness ==
  /\ s_impl = "search" /\ s_pc = "done"
  /\ Len(hits) = SearchCap
  /\ s_ni < Len(AllNodes(s_mods, 1))

\* whether the term is in one of the six fields of flat node n, lower-cased
FieldMatch(n) ==
  \E f \in {n.name, n.oid, n.sym_oid, n.klass, n.syntax, n.description} :
    f # None /\ In(NormTerm(term), ToLower(f))

\* C12: a search with a term that is not blank, and that ends below the cap,
\* returns a node if and only if the trimmed, lower-cased term is a substring
\* of the lower-cased name, oid, symbolic oid, kind, syntax or description of
\* that node.
C12_HitIffFieldMatch ==
  (s_pc = "done" /\ NormTerm(term) # <<>> /\ Len(hits) < SearchCap) =>
    \A i \in DOMAIN s_mods : \A k \in DOMAIN FlatOf(s_impl, s_mods[i]) :
      <<s_mods[i], k>> \in Range(hits) <=> FieldMatch(FlatOf(s_impl, s_mods[i])[k])

\* C12, the half that holds: a node with the term in one of the six fields
\* is returned
C12_FieldMatchIsHit ==
  (s_pc = "done" /\ NormTerm(term) # <<>> /\ Len(hits) < SearchCap) =>
    \A i \in DOMAIN s_mods : \A k \in DOMAIN FlatOf(s_impl, s_mods[i]) :
      FieldMatch(FlatOf(s_impl, s_mods[i])[k]) => <<s_mods[i], k>> \in Range(hits)

\* an oid that is not empty and has only numeric segments
IsNumericOid(oid) ==
  /\ oid # <<>>
  /\ \A p \in Range(Split(oid, ".")) : p # <<>> /\ \A i \in DOMAIN p : p[i] \in Digit

\* C13: in the flat list of mib_browser.py, every node with a fully numeric
\* oid stands before every node whose oid is empty or has a segment that is
\* not numeric.
C13_NumericFirst ==
  (f_impl = "mib_browser" /\ f_pc # "input") =>
    \A i, j \in DOMAIN flat.one :
      (IsNumericOid(flat.one[i].oid) /\ ~IsNumericOid(flat.one[j].oid)) => i < j

\* C13 for the oids whose first segment is numeric only if all are: the
\* nodes with a symbolic first segment or an empty oid come last
C13_SymbolicParentLast ==
  (f_impl = "mib_browser" /\ f_pc # "input") =>
    \A i, j \in DOMAIN flat.one :
      (/\ IsNumericOid(flat.one[i].oid)
       /\ flat.one[j].oid \in { <<>>, <<"f", "o", "o", ".", "1">> }) => i < j

\* C14: the order of the flat list is total: the nodes of a module in any
\* other order of the dict give the same flat list, and sorting the flat
\* list again leaves it unchanged.
C14_FlatListDetermined ==
  /\ f_pc = "permuted" => flat.perm = flat.one
  /\ f_pc = "resorted" => flat.again = flat.one

\* C14 for flatten_nodes of mib_browser.py alone
C14_BrowserFlatListDetermined ==
  f_impl = "mib_browser" =>
    /\ f_pc = "permuted" => flat.perm = flat.one
    /\ f_pc = "resorted" => flat.again = flat.one

----------------------------------------------------------------------------
\* C15 (as stated): the enum table of a SYNTAX value is exactly the sequence
\* of (label, number-as-text) pairs of the entries of the form label(number),
\* in source order, duplicates kept, the entries without a parenthesised
\* number left out.
C15_EnumTableExact ==
  tpc = "enums" => out.enums = EnumPairs(truth.enums, {"number", "negative"}, 1)

\* C15, the part that holds: the table is exactly the sequence of the pairs
\* of the entries label(number) whose number is written with digits alone.
C15_UnsignedEnumTable ==
  tpc = "enums" => out.enums = EnumPairs(truth.enums, {"number"}, 1)

\* C15, the example of the claim: INTEGER { up(1), down(2) } gives
\* [("up", "1"), ("down", "2")].
C15_Example ==
  /\ tpc = "enums"
  /\ text = <<"I", "N", "T", "E", "G", "E", "R", " ", "{", " ", "u", "p", "(", "1", ")", ",", " ", "d", "o", "w", "n", "(", "2", ")", " ", "}">>
  /\ out.enums = << <<<<"u", "p">>, <<"1">>>>, <<<<"d", "o", "w", "n">>, <<"2">>>> >>

\* C15: a list with a duplicate entry and an entry without a number has been
\* read: the duplicate is kept and the entry without a number is left out.
C15_WitnessDuplicate ==
  /\ tpc = "enums"
  /\ Len(truth.enums) = 2
  /\ truth.enums[1] = truth.enums[2]
  /\ Len(out.enums) = 2
  /\ out.enums[1] = out.enums[2]

----------------------------------------------------------------------------
\* the kinds of declaration parse_mib_text makes a node of
BrowserKlasses ==
  { "OBJECT IDENTIFIER", "OBJECT-IDENTITY", "OBJECT-TYPE", "NOTIFICATION-TYPE",
    "TEXTUAL-CONVENTION", "SEQUENCE", "OBJECT-GROUP", "MODULE-COMPLIANCE",
    "AGENT-CAPABILITIES" }

\* the declarations of name n the running parser scans, in source order
Occurrences(n) ==
  SelectSeq(decls, LAMBDA d : /\ d.name = n
                              /\ d.klass \in (IF impl = "parser" THEN ParserKlasses
                                              ELSE BrowserKlasses))

\* whether the node nd is the node of declaration d: its kind and, where the
\* node keeps the text of the arc expression, its arc expression
NodeOf(nd, d) ==
  IF impl = "parser" THEN nd.klass = KlassDash(d.klass) /\ nd.oid_def = d.arc
  ELSE /\ nd.klass = d.klass
       /\ d.klass # "OBJECT IDENTIFIER" => nd.oid_def = ParentBody(d)

\* C16 (as stated): after a parse, the node stored under a name that is
\* declared more than once is the node of the occurrence that is last in
\* the source text, whatever the kinds of the occurrences.
C16_LastOccurrenceWins ==
  pc = "done" =>
    \A n \in DOMAIN nodes :
      Len(Occurrences(n)) >= 2 => NodeOf(nodes[n], Last(Occurrences(n)))

\* C16, parser.py alone: the node of a name declared more than once is the
\* node of its last occurrence.
C16_ParserLastWins ==
  (pc = "done" /\ impl = "parser") =>
    \A n \in DOMAIN nodes :
      Len(Occurrences(n)) >= 2 => NodeOf(nodes[n], Last(Occurrences(n)))

\* C16, mib_browser.py, occurrences of one kind: the node is the node of
\* the last of them.
C16_BrowserLastOfOneKind ==
  (pc = "done" /\ impl = "mib_browser") =>
    \A n \in DOMAIN nodes :
      LET occ == Occurrences(n) IN
        (Len(occ) >= 2 /\ \A i \in DOMAIN occ : occ[i].klass = occ[1].klass)
          => NodeOf(nodes[n], Last(occ))

\* C16: parser.py has parsed a text that declares a name twice with
\* different kinds.
C16_WitnessMixedKinds ==
  /\ pc = "done" /\ impl = "parser"
  /\ \E n \in DOMAIN nodes :
       /\ Len(Occurrences(n)) = 2
       /\ Occurrences(n)[1].klass # Occurrences(n)[2].klass

----------------------------------------------------------------------------
\* the position in loaded of the last file whose module name is m
LastLoad(m) ==
  CHOOSE i \in DOMAIN loaded :
    /\ loaded[i].doc.moduleName = m
    /\ \A j \in DOMAIN loaded : loaded[j].doc.moduleName = m => j <= i

C17_WitnessApp ==
  /\ r_impl = "app"
  /\ \E i, j \in DOMAIN loaded :
       /\ i < j
       /\ loaded[i].doc.moduleName = loaded[j].doc.moduleName
       /\ loaded[i].doc # loaded[j].doc

----------------------------------------------------------------------------
\* whether the parse of the module text has made the node of declaration d
HasNodeOf(d) ==
  /\ d.name \in DOMAIN out.parsed.nodes
  /\ out.parsed.nodes[d.name] = [klass |-> KlassDashText(d.klass), oid_def |-> d.oid_def]

\* C18 (as stated): the parse of a text with a module header does not
\* raise, and every well-formed declaration of the text has its node, even
\* when another declaration has a malformed arc expression, a missing field
\* or an unresolvable parent.
C18_GoodDeclarationsKept ==
  tpc = "parsed" =>
    /\ ~out.parsed.raised
    /\ \A i \in DOMAIN truth.mdecls :
         truth.mdecls[i].form = "good" => HasNodeOf(truth.mdecls[i])

\* C18, the part that holds: when the arc expression of every declaration
\* stands in braces and its numbers are ASCII digits, the parse does not
\* raise and every well-formed declaration has its node.
C18_BracedDeclarationsKept ==
  (/\ tpc = "parsed"
   /\ \A i \in DOMAIN truth.mdecls :
        truth.mdecls[i].form \in {"good", "arc", "parent", "field"}) =>
    /\ ~out.parsed.raised
    /\ \A i \in DOMAIN truth.mdecls :
         truth.mdecls[i].form = "good" => HasNodeOf(truth.mdecls[i])

----------------------------------------------------------------------------
\* the names the module text declares
Declared == { decls[i].name : i \in DOMAIN decls }

\* declaration d hangs with one arc number under a well-known root that the
\* module does not declare, and nothing else declares the name of d
UnderSeededRoot(d) ==
  /\ Len(d.arc) = 2
  /\ d.arc[1].k = "id" /\ d.arc[2].k = "num"
  /\ d.arc[1].s \in DOMAIN BASE_OIDS \ Declared
  /\ Cardinality({ i \in DOMAIN decls : decls[i].name = d.name }) = 1

\* C19 (as stated): a declaration whose parent is a well-known root that the
\* module does not define has, after the parse, the numeric oid made of the
\* standard value of the root and its arc number.
C19_RootsSeeded ==
  pc = "done" =>
    \A i \in DOMAIN decls :
      UnderSeededRoot(decls[i]) =>
        /\ decls[i].name \in DOMAIN nodes
        /\ nodes[decls[i].name].has_oid
        /\ nodes[decls[i].name].oid = BASE_OIDS[decls[i].arc[1].s] \o decls[i].arc[2].d

\* C19, mib_browser.py alone: BASE_OIDS seeds the roots.
C19_BrowserRootsSeeded == impl = "mib_browser" => C19_RootsSeeded

\* C19, parser.py: of the roots only iso is seeded.
C19_ParserIsoSeeded ==
  (pc = "done" /\ impl = "parser") =>
    \A i \in DOMAIN decls :
      (UnderSeededRoot(decls[i]) /\ decls[i].klass \in ParserKlasses) =>
        /\ decls[i].name \in DOMAIN nodes
        /\ nodes[decls[i].name].has_oid <=> decls[i].arc[1].s = "iso"

\* C19: mib_browser.py has parsed a module with a declaration under mib-2
\* that declares no mib-2.
C19_WitnessBrowser ==
  /\ pc = "done" /\ impl = "mib_browser"
  /\ \E i \in DOMAIN decls : UnderSeededRoot(decls[i]) /\ decls[i].arc[1].s = "mib-2"

----------------------------------------------------------------------------
\* what the entry of importer x under source m is when the index is made
\* anew from the registry: the symbols x imports from m that m defines, all
\* of them when m is not loaded or defines nothing
FreshEntry(m, x) ==
  SelectSeq(COMPILED[x].imports[m],
            LAMBDA y : \/ m \notin DOMAIN COMPILED
                       \/ COMPILED[m].nodes = {}
                       \/ y \in COMPILED[m].nodes)

\* whether the loaded module x imports symbols from m
ImportsFrom(x, m) ==
  /\ x \in DOMAIN COMPILED
  /\ m \in DOMAIN COMPILED[x].imports
  /\ COMPILED[x].imports[m] # <<>>

\* C20: after every operation of mib_browser.py on the set of loaded
\* modules, the reverse import index is the index made anew from the
\* imports of the modules now in the registry: every entry comes from a
\* loaded importer, and every loaded importer has its entries.
C20_ReverseIndexFresh ==
  started =>
    /\ \A m \in DOMAIN IMPORTED_BY : \A x \in DOMAIN IMPORTED_BY[m] :
         ImportsFrom(x, m) /\ IMPORTED_BY[m][x] = FreshEntry(m, x)
    /\ \A x \in DOMAIN COMPILED : \A m \in DOMAIN COMPILED[x].imports :
         ImportsFrom(x, m) => m \in DOMAIN IMPORTED_BY /\ x \in DOMAIN IMPORTED_BY[m]
    /\ \A m \in DOMAIN IMPORTED_BY : DOMAIN IMPORTED_BY[m] # {}

\* C20: an auto-discovered module that imports symbols has been removed
\* while another module stays loaded, and the index has no entry of it.
C20_WitnessAutoRemoved ==
  /\ started
  /\ DOMAIN COMPILED # {}
  /\ \E i \in DOMAIN auto :
       LET d == auto[i].doc IN
       /\ d.moduleName \notin DOMAIN COMPILED
       /\ \E m \in DOMAIN d.imports : d.imports[m] # <<>>
       /\ \A m \in DOMAIN IMPORTED_BY : d.moduleName \notin DOMAIN IMPORTED_BY[m]

----------------------------------------------------------------------------
(* mib_browser.py under concurrent requests.  Neither program takes a lock; *)
(* app.run() serves each request in a thread of its own, and a thread can   *)
(* be suspended between any two statements of a handler.  parse_sources is  *)
(* therefore taken in steps: the clearing of COMPILED and MOD_TO_PATH, the  *)
(* storing of one file, the rebuild of MODULE_EXPORTS, the clearing of      *)
(* IMPORTED_BY and the entries of one importer.  The files on disk stay the *)
(* same: every rebuild is the one of clear_all() with no upload on disk.    *)

Threads == {1, 2}

\* the rebuilds one thread runs
MaxRebuilds == 1

IdleThread == [pc |-> "idle", i |-> 0, sz |-> 0, visited |-> {}, n |-> 0,
               raised |-> FALSE]

\* no request has read the registry yet
NoView == [set |-> FALSE, C |-> EmptyDict, I |-> EmptyDict, during |-> {}]

\* the registry parse_sources makes of the files on disk when it runs alone
Stable == LoadFiles(auto, 1, EmptyDict, EmptyDict)

\* the lines of the index loop for one importer: setdefault and extend
AddImporter(I, E, importer, imps) ==
  LET fs == { m \in DOMAIN imps : imps[m] # <<>> } IN
  IF DOMAIN I \cup fs = {} THEN EmptyDict
  ELSE [m \in DOMAIN I \cup fs |->
         IF m \in fs
         THEN LET old == IF m \in DOMAIN I THEN I[m] ELSE EmptyDict IN
              DictSet(old, importer,
                      DictGet(old, importer)
                        \o Take(imps[m], IF m \in DOMAIN E THEN E[m] ELSE {}))
         ELSE I[m]]

\* clear_all(): nothing to purge, then COMPILED.clear(); MOD_TO_PATH.clear()
ClearBegin(t) ==
  /\ thr[t].pc = "idle" /\ thr[t].n < MaxRebuilds
  /\ COMPILED' = EmptyDict
  /\ MOD_TO_PATH' = EmptyDict
  /\ thr' = [thr EXCEPT ![t] = [@ EXCEPT !.pc = IF auto = <<>> THEN "exports" ELSE "load",
                                         !.i = 1, !.raised = FALSE]]
  /\ UNCHANGED <<started, auto, uploads, MODULE_EXPORTS, IMPORTED_BY, r_impl,
                 loaded, call, seen>>
  /\ UNCHANGED nonConcVars

\* one turn of the loop over the discovered files
LoadOne(t) ==
  /\ thr[t].pc = "load"
  /\ LET f == auto[thr[t].i] IN
     /\ COMPILED' = DictSet(COMPILED, f.doc.moduleName, f.doc)
     /\ MOD_TO_PATH' = DictSet(MOD_TO_PATH, f.doc.moduleName, f.rel)
  /\ thr' = [thr EXCEPT ![t] = [@ EXCEPT !.pc = IF thr[t].i = Len(auto) THEN "exports" ELSE "load",
                                         !.i = @ + 1]]
  /\ UNCHANGED <<started, auto, uploads, MODULE_EXPORTS, IMPORTED_BY, r_impl,
                 loaded, call, seen>>
  /\ UNCHANGED nonConcVars

\* MODULE_EXPORTS.clear() and the loop that fills it, of the COMPILED of now
RebuildExports(t) ==
  /\ thr[t].pc = "exports"
  /\ MODULE_EXPORTS' = Exports(COMPILED)
  /\ thr' = [thr EXCEPT ![t] = [@ EXCEPT !.pc = "iclear"]]
  /\ UNCHANGED <<started, auto, uploads, COMPILED, MOD_TO_PATH, IMPORTED_BY,
                 r_impl, loaded, call, seen>>
  /\ UNCHANGED nonConcVars

\* IMPORTED_BY.clear() and the start of the iteration of COMPILED.items()
IndexClear(t) ==
  /\ thr[t].pc = "iclear"
  /\ IMPORTED_BY' = EmptyDict
  /\ thr' = [thr EXCEPT ![t] = [@ EXCEPT !.pc = "iadd",
                                         !.sz = Cardinality(DOMAIN COMPILED),
                                         !.visited = {}]]
  /\ UNCHANGED <<started, auto, uploads, COMPILED, MOD_TO_PATH, MODULE_EXPORTS,
                 r_impl, loaded, call, seen>>
  /\ UNCHANGED nonConcVars

\* one turn of the index loop: the entries of one importer not yet visited
IndexAdd(t) ==
  /\ thr[t].pc = "iadd"
  /\ Cardinality(DOMAIN COMPILED) = thr[t].sz
  /\ \E importer \in DOMAIN COMPILED \ thr[t].visited :
       /\ IMPORTED_BY' = AddImporter(IMPORTED_BY, MODULE_EXPORTS, importer,
                                     COMPILED[importer].imports)
       /\ thr' = [thr EXCEPT ![t] = [@ EXCEPT !.visited = @ \cup {importer}]]
  /\ UNCHANGED <<started, auto, uploads, COMPILED, MOD_TO_PATH, MODULE_EXPORTS,
                 r_impl, loaded, call, seen>>
  /\ UNCHANGED nonConcVars

\* the iteration finds COMPILED of another size: RuntimeError, the request
\* ends with the index as it is
IndexRaise(t) ==
  /\ thr[t].pc = "iadd"
  /\ Cardinality(DOMAIN COMPILED) # thr[t].sz
  /\ thr' = [thr EXCEPT ![t] = [@ EXCEPT !.pc = "idle", !.n = @ + 1,
                                         !.raised = TRUE]]
  /\ UNCHANGED <<regVars, seen>>
  /\ UNCHANGED nonConcVars

\* the iteration is exhausted: parse_sources returns
IndexEnd(t) ==
  /\ thr[t].pc = "iadd"
  /\ Cardinality(DOMAIN COMPILED) = thr[t].sz
  /\ DOMAIN COMPILED \subseteq thr[t].visited
  /\ thr' = [thr EXCEPT ![t] = [@ EXCEPT !.pc = "idle", !.n = @ + 1]]
  /\ UNCHANGED <<regVars, seen>>
  /\ UNCHANGED nonConcVars

\* module_view() and search_all() read the registry and the index
View ==
  /\ seen' = [set |-> TRUE, C |-> COMPILED, I |-> IMPORTED_BY,
              during |-> { t \in Threads : thr[t].pc # "idle" }]
  /\ UNCHANGED <<regVars, thr>>
  /\ UNCHANGED nonConcVars

ConcInit ==
  /\ ParseIdle
  /\ decls = <<>>
  /\ TextIdle
  /\ SearchIdle
  /\ FlatIdle
  /\ started = TRUE
  /\ r_impl = "mib_browser"
  /\ auto \in AutoFiles
  /\ uploads = EmptyDict
  /\ COMPILED = Stable.C
  /\ MOD_TO_PATH = Stable.P
  /\ MODULE_EXPORTS = Exports(Stable.C)
  /\ IMPORTED_BY = ImportedBy(Stable.C, Exports(Stable.C))
  /\ loaded = auto
  /\ call = NoCall
  /\ thr = [t \in Threads |-> IdleThread]
  /\ seen = NoView

ConcNext ==
  \/ \E t \in Threads :
       \/ ClearBegin(t)
       \/ LoadOne(t)
       \/ RebuildExports(t)
       \/ IndexClear(t)
       \/ IndexAdd(t)
       \/ IndexRaise(t)
       \/ IndexEnd(t)
  \/ View

ConcSpec == ConcInit /\ [][ConcNext]_vars

\* C21: the registry and the import index are rebuilt by one writer with
\* every other request stopped: whatever a module view or a search reads is
\* the registry of the files on disk and the index made of it, never a
\* cleared or half filled one.
C21_NoPartialView ==
  seen.set =>
    /\ seen.C = Stable.C
    /\ seen.I = ImportedBy(Stable.C, Exports(Stable.C))

\* C21: when no rebuild runs any more, the import index is the one made of
\* the registry.
C21_RebuildsConsistent ==
  (\A t \in Threads : thr[t].pc = "idle") =>
    IMPORTED_BY = ImportedBy(COMPILED, Exports(COMPILED))

----------------------------------------------------------------------------
(* The symbol tables during a resolution run *)

\* a path of decimal integers only
AllNumeric(oid) == oid # <<>> /\ \A i \in DOMAIN oid : isdigit(oid[i])

\* C22: in every state of a resolution run every value of the symbol table
\* (sym2oid of parse_mib_text, oid_map of _pass2_resolve_oids) is a path of
\* decimal integers with no symbolic segment, whatever the kind of the
\* declaration that stored it.
C22_SymbolTableNumeric ==
  /\ \A n \in DOMAIN sym2oid : AllNumeric(sym2oid[n])
  /\ \A n \in DOMAIN oid_map : AllNumeric(oid_map[n])

\* C22: the part that holds: the values add_node stores for the macro
\* declarations, and the values of oid_map, are numeric.
C22_AddNodeNumeric ==
  /\ \A n \in DOMAIN sym2oid :
       n \notin { d.name : d \in { x \in DeclUniverse : x.klass = "OBJECT IDENTIFIER" } }
         => AllNumeric(sym2oid[n])
  /\ \A n \in DOMAIN oid_map : AllNumeric(oid_map[n])

----------------------------------------------------------------------------
(* What a finished parse hands on *)

\* the names of the nodes of the tree under node name, name included
RECURSIVE Under(_, _)
Under(ns, name) ==
  {name} \cup UNION { Under(ns, ns[name].children[i]) : i \in DOMAIN ns[name].children }

\* the names of the nodes of the forest doc of parser.py, which are the
\* nodes flatten_nodes of search.py lists
ForestNames == UNION { Under(nodes, doc[i]) : i \in DOMAIN doc }

\* the running parser makes a node of declaration d
Scanned(d) ==
  d.klass \in (IF impl = "parser" THEN ParserKlasses ELSE BrowserKlasses)

\* the result of the parse has a node of name n
Emitted(n) ==
  IF impl = "parser" THEN n \in ForestNames ELSE n \in DOMAIN nodes

\* C23: after the parse every scanned declaration, resolved or not, has its
\* node in the result (the forest and its flat list, or the node map the
\* flat list is made of).
C23_AllEmitted ==
  pc = "done" => \A i \in DOMAIN decls : Scanned(decls[i]) => Emitted(decls[i].name)

\* C23: the part that holds: parse_mib_text of mib_browser.py has a node of
\* every declaration it scans, with the path _resolve_braced_oid gives it.
C23_BrowserAllEmitted ==
  (pc = "done" /\ impl = "mib_browser") =>
     \A i \in DOMAIN decls : Scanned(decls[i]) => decls[i].name \in DOMAIN nodes

----------------------------------------------------------------------------
(* _pass2_resolve_oids as one function, and the run of the parse under the  *)
(* scheduling of a sequential program: the next statement is always run     *)

\* the for loop of one pass from the i-th node on: the nodes, oid_map and
\* resolved_in_pass after it
RECURSIVE Pass2Pass(_, _, _)
Pass2Pass(ord, i, st) ==
  IF i > Len(ord) THEN st
  ELSE LET name == ord[i] IN
       IF Resolves(st.map, st.ns, name)
       THEN LET oid == ResolvedOid(st.map, st.ns, name) IN
            Pass2Pass(ord, i + 1,
              [ns |-> [st.ns EXCEPT ![name].has_oid = TRUE, ![name].oid = oid],
               map |-> DictSet(st.map, name, oid),
               prog |-> TRUE])
       ELSE Pass2Pass(ord, i + 1, st)

\* the while loop: passes are run until one resolves nothing
RECURSIVE Pass2Loop(_, _, _)
Pass2Loop(ord, st, fuel) ==
  IF ~st.prog \/ fuel = 0 THEN st
  ELSE Pass2Loop(ord, Pass2Pass(ord, 1, [st EXCEPT !.prog = FALSE]), fuel - 1)

\* the nodes of the module text ds after passes 1 and 2
Pass2Result(ds) ==
  LET r == Pass1From(ds, 1, EmptyDict, <<>>) IN
  Pass2Loop(r[2], [ns |-> r[1], map |-> DictSet(EmptyDict, "iso", <<"1">>),
                   prog |-> TRUE], PassCap).ns

\* node a hangs under b and node b under a, and neither is the seeded root
Cyclic(a, b) ==
  /\ a # b /\ a # "iso" /\ b # "iso"
  /\ a \in DOMAIN nodes /\ b \in DOMAIN nodes
  /\ _parse_oid_def(nodes[a].oid_def)[1] /\ _parse_oid_def(nodes[a].oid_def)[2] = Id(b)
  /\ _parse_oid_def(nodes[b].oid_def)[1] /\ _parse_oid_def(nodes[b].oid_def)[2] = Id(a)

CycleNames == { a \in DOMAIN nodes : \E b \in DOMAIN nodes : Cyclic(a, b) }

\* every node outside the cycle has the oid it has when the module is parsed
\* without the declarations of the cycle
OthersUnaffected ==
  LET R == Pass2Result(SelectSeq(decls, LAMBDA d : d.name \notin CycleNames)) IN
  \A n \in DOMAIN nodes \ CycleNames :
     /\ n \in DOMAIN R
     /\ nodes[n].has_oid = R[n].has_oid
     /\ nodes[n].oid = R[n].oid

\* declarations d and e name each other as parent, neither being iso
DeclCyclic(d, e) ==
  /\ d.name # e.name /\ d.name # "iso" /\ e.name # "iso"
  /\ Len(d.arc) = 2 /\ d.arc[1] = Id(e.name)
  /\ Len(e.arc) = 2 /\ e.arc[1] = Id(d.name)

\* the parses of parser.py of the module texts with two such declarations
CycleInit ==
  /\ ParseInit
  /\ impl = "parser"
  /\ \E i, j \in DOMAIN decls : DeclCyclic(decls[i], decls[j])

ParseFairSpec == CycleInit /\ [][ParserNext]_vars /\ WF_vars(ParserNext)

\* C24: when two declarations name each other as parent and neither is a
\* seeded root, the resolution of parser.py ends, by a pass that resolves
\* nothing, with neither of the two given an oid and with every other
\* declaration resolved as it is without the two.
C24_CycleHalts ==
  (pc = "while" /\ CycleNames # {})
    ~> ( /\ pc = "done"
         /\ ~resolved_in_pass
         /\ \A n \in CycleNames : ~nodes[n].has_oid /\ n \notin DOMAIN oid_map
         /\ OthersUnaffected )

\* C24: a module with a cycle and a resolved declaration outside it has been
\* parsed, in one pass that resolved and one that did not.
C24_WitnessCycle ==
  /\ impl = "parser" /\ pc = "done"
  /\ CycleNames # {}
  /\ passes >= 2
  /\ \E n \in DOMAIN nodes \ CycleNames : nodes[n].has_oid

----------------------------------------------------------------------------
(* The forest of a module view.  f_nodes holds the nodes of the module in   *)
(* the order of the node map, which for declarations of one kind is the     *)
(* order of the module text.                                                *)

\* the last of the nodes declared with the path of node i
LastDeclared(i) ==
  CHOOSE j \in DOMAIN f_nodes :
    /\ Parts(f_nodes[j].oid) = Parts(f_nodes[i].oid)
    /\ \A k \in DOMAIN f_nodes : Parts(f_nodes[k].oid) = Parts(f_nodes[i].oid) => k <= j

\* C25: in the forest of a module, the node attached at a path is the node
\* declared last with that path, and every node with a non-empty path is
\* attached at the last segment of its own path.
C25_LastDeclaredAttached ==
  f_pc = "tree" =>
    \A i \in DOMAIN f_nodes :
       f_nodes[i].oid # <<>> =>
         /\ Parts(f_nodes[i].oid) \in DOMAIN flat.tree
         /\ flat.tree[Parts(f_nodes[i].oid)] = f_nodes[LastDeclared(i)].name

\* C25: the part that holds: every path of a node has a node of that path
\* attached at its last segment.
C25_AttachedAtOwnPath ==
  f_pc = "tree" =>
    \A i \in DOMAIN f_nodes :
       f_nodes[i].oid # <<>> =>
         /\ Parts(f_nodes[i].oid) \in DOMAIN flat.tree
         /\ \E j \in DOMAIN f_nodes :
              /\ Parts(f_nodes[j].oid) = Parts(f_nodes[i].oid)
              /\ flat.tree[Parts(f_nodes[i].oid)] = f_nodes[j].name

----------------------------------------------------------------------------
(* Arc tokens of the form name(number) *)

\* the arc expression { iso org(3) dod(6) 1 }
PairExample == <<Id("iso"), Pair("org", "3"), Pair("dod", "6"), Num("1")>>

\* declaration i is the only one of its name, is scanned, and its arc
\* expression is { iso name(n) } with iso standing for 1
IsoPairArc(i) ==
  /\ Scanned(decls[i])
  /\ Cardinality({ j \in DOMAIN decls : decls[j].name = decls[i].name }) = 1
  /\ Len(decls[i].arc) = 2
  /\ decls[i].arc[1] = Id("iso") /\ decls[i].arc[2].k = "pair"
  /\ IF impl = "parser" THEN DictGet(oid_map, "iso") = <<"1">>
     ELSE "iso" \notin DOMAIN sym2oid

\* C26: a child token name(number) of an arc expression contributes the
\* number and its name is not looked up: after the parse a declaration with
\* the arc expression { iso name(n) } has the oid 1.n, and
\* { iso org(3) dod(6) 1 } is 1.3.6.1.
C26_PairNumberAppended ==
  pc = "done" =>
    \A i \in DOMAIN decls :
       IsoPairArc(i) =>
         /\ decls[i].name \in DOMAIN nodes
         /\ nodes[decls[i].name].has_oid
         /\ nodes[decls[i].name].oid = <<"1", decls[i].arc[2].d[1]>>

\* C26: the part that holds: _resolve_braced_oid of mib_browser.py gives
\* 1.3.6.1 for { iso org(3) dod(6) 1 } whatever the symbol table holds for
\* org and dod.
C26_BrowserPairNumber ==
  (impl = "mib_browser" /\ "iso" \notin DOMAIN sym2oid) =>
     _resolve_braced_oid(PairExample, sym2oid) = <<"1", "3", "6", "1">>

----------------------------------------------------------------------------
(* The end of the resolution loop *)

\* node n has an arc expression P n with n a decimal number and P the seeded
\* root or a node that has an oid
ResolvableArc(n) ==
  LET a == nodes[n].oid_def IN
  /\ Len(a) = 2
  /\ a[2].k = "num"
  /\ a[1].k \in {"id", "num"}
  /\ \/ a[1].s = "iso"
     \/ a[1].s \in DOMAIN nodes /\ nodes[a[1].s].has_oid

\* C27: when the loop of _pass2_resolve_oids has stopped, no node without
\* an oid has an arc expression P n with n a decimal number and P the seeded
\* root or a declaration that has an oid.
C27_FixedPoint ==
  (impl = "parser" /\ pc \in {"pass3", "done"}) =>
     \A n \in DOMAIN nodes : ~nodes[n].has_oid => ~ResolvableArc(n)

\* C27: the loop has stopped after three passes, with a node resolved under
\* a node of the module and a node left without an oid.
C27_WitnessStopped ==
  /\ impl = "parser" /\ pc = "pass3"
  /\ passes >= 3
  /\ \E n \in DOMAIN nodes : ~nodes[n].has_oid
  /\ \E n \in DOMAIN nodes : nodes[n].has_oid /\ Len(nodes[n].oid) = 3

----------------------------------------------------------------------------
\* C28: within one resolution run the value the symbol table (oid_map of
\* parser.py, sym2oid of mib_browser.py) holds for a name does not change
\* once the name is in the table; the seeded root iso stays 1 even when the
\* module declares a node named iso.
C28_TableValuesFixed ==
  [][ /\ \A n \in DOMAIN oid_map :
           n \in DOMAIN oid_map' /\ oid_map'[n] = oid_map[n]
      /\ \A n \in DOMAIN sym2oid :
           n \in DOMAIN sym2oid' /\ sym2oid'[n] = sym2oid[n] ]_vars

----------------------------------------------------------------------------
\* the modules of the files under BASE_DIR that are not loaded: once the
\* program has started, the auto-discovered modules that were removed
RemovedAuto ==
  { auto[i].doc.moduleName : i \in DOMAIN auto } \ DOMAIN COMPILED

\* C29: after every operation of mib_browser.py the key sets of COMPILED,
\* MOD_TO_PATH and MODULE_EXPORTS are equal, and an auto-discovered module
\* that was removed is a key of none of them and an importer in no entry of
\* IMPORTED_BY.
C29_KeySetsAgree ==
  started =>
    /\ DOMAIN COMPILED = DOMAIN MOD_TO_PATH
    /\ DOMAIN COMPILED = DOMAIN MODULE_EXPORTS
    /\ \A m \in RemovedAuto :
         /\ m \notin DOMAIN MOD_TO_PATH
         /\ m \notin DOMAIN MODULE_EXPORTS
         /\ \A f \in DOMAIN IMPORTED_BY : m \notin DOMAIN IMPORTED_BY[f]

\* C29: an auto-discovered module has been removed while an upload is on
\* disk and loaded.
C29_WitnessRemovedBesideUpload ==
  /\ started
  /\ RemovedAuto # {}
  /\ DOMAIN uploads # {}
  /\ \E m \in DOMAIN MOD_TO_PATH : MOD_TO_PATH[m][1] = "Uploads"

----------------------------------------------------------------------------
\* C30: add_mib_content changes COMPILED only on success: after a call the
\* registry is the one before it with the module stored under its name when
\* a module name was found and the forest is not empty, and exactly the one
\* before it when no header was found, the forest is empty or the parser
\* raised.
C30_StoredOnlyOnSuccess ==
  (r_impl = "app" /\ call.made) =>
     IF ~call.raised /\ call.d.moduleName # "" /\ call.d.nodes # {}
     THEN /\ call.d.moduleName \in DOMAIN COMPILED
          /\ COMPILED[call.d.moduleName] = call.d
          /\ \A m \in DOMAIN COMPILED \cup DOMAIN call.before :
               m # call.d.moduleName =>
                 m \in DOMAIN COMPILED /\ m \in DOMAIN call.before
                   /\ COMPILED[m] = call.before[m]
     ELSE COMPILED = call.before

\* C30: a call for a module that is stored already has failed, with an
\* empty forest or a raise of the parser, and the entry is still there.
C30_WitnessFailedOverStored ==
  /\ r_impl = "app" /\ call.made
  /\ call.d.moduleName \in DOMAIN call.before
  /\ call.raised \/ call.d.nodes = {}
  /\ COMPILED[call.d.moduleName] # call.d

====
